---- MODULE Spec2Model ----
(***************************************************************************)
(* Paper2Any orchestration core: the workflow graph builder and engine,    *)
(* the agent execution strategies (React, Parallel), the intra-node        *)
(* fan-out of the workflow nodes, and the structured-output parser         *)
(* robust_parse_json.                                                      *)
(*                                                                         *)
(* Each subsystem has its own specification (SpecBuild, SpecInvoke,        *)
(* SpecReact, SpecParallel, SpecFanOut, SpecParse); a specification        *)
(* holds the variables of the other subsystems at their idle values.       *)
(***************************************************************************)
EXTENDS Integers, Sequences, FiniteSets, TLC

VARIABLES
    \* ---- GenericGraphBuilder (workflow factories) ----
    wf_name,            \* workflow factory that filled the builder, or "custom"
    entry_point,        \* GenericGraphBuilder(entry_point=...)
    nodes,              \* names registered through add_nodes
    edges,              \* list of (src, dst) registered through add_edges/add_edge
    conditional_edges,  \* src -> router name (add_conditional_edge, last one wins)
    built,              \* "unbuilt" | "ok" | "GraphInvalid"
    \* ---- compiled graph, Invoke (two independent runs of one graph) ----
    graph,              \* workflow whose compiled graph is invoked, or "none"
    state,              \* run -> ExecutionState fields the routers and nodes use
    cur,                \* run -> node whose function runs next
    visited,            \* run -> nodes whose function was started, in order
    routed,             \* run -> nodes whose outgoing edge or router was evaluated
    status,             \* run -> "running" | "done" | "error"
    failed,             \* run -> node whose function raised, or "none"
    \* ---- Execute in React mode ----
    react_requested,    \* max_retries the caller passed to create_react_agent
    react_config,       \* ReactConfig built by create_react_agent, or NoConfig
    react_validators,   \* number of validators of the config, run in order
    react_attempt,      \* attempts started so far
    react_calls,        \* Tool/Model Caller invocations so far
    react_last,         \* outcome of the latest attempt: kind and diagnostic
    react_only_invalid, \* every attempt so far ended in a validator failure
    react_feedback,     \* diagnostic appended to the next attempt's prompt
    react_outcome,      \* "idle" | "running" | "success" | "ValidationExhausted"
    react_result,       \* attempt whose parsed result was merged, or 0
    react_error,        \* diagnostic carried by the terminal error, or "none"
    react_updates,      \* calls of update_state_result
    \* ---- Execute in Parallel mode ----
    par_requested,      \* concurrency_limit the caller passed to create_parallel_agent
    par_config,         \* ParallelConfig built by create_parallel_agent, or NoConfig
    par_items,          \* item -> "queued" | "inflight" | "ok" | "error"
    par_after_error,    \* an item was started or completed after another had failed
    par_returned,       \* item outcomes Execute returned, or <<>> before it returns
    \* ---- intra-node fan-out: asyncio.gather over per-item sub-tasks ----
    fan_node,           \* "outline_for_long_text" | "vlm_recognition_node" | "none"
    fan_input,          \* the node's input: text length and page targets, or slide images
    fan_phase,          \* "entered" | "gathering" | "returned" | "raised"
    fan_batches,        \* outline: calculate_batches result, one tuple per sub-task
    fan_task,           \* sub-task position -> "running" | "done" | "raised"
    fan_results,        \* sub-task position -> value the sub-task returned
    fan_completed,      \* sub-task positions in completion order
    fan_output,         \* state.pagecontent / state.vlm_pages written by the node
    fan_writes,           \* per sub-task, the (object, field) pairs it has written
    \* ---- robust_parse_json ----
    parse_pieces,               \* the pieces whose concatenation is the text argument
    parse_merge_dicts,          \* keyword argument merge_dicts
    parse_strip_double_braces,  \* keyword argument strip_double_braces
    parse_step,                 \* "none" before the call, else the step that ended it
    parse_value,                \* the value returned, or the exception raised
    parse_objs,                 \* the fragments found by the step that ended the call
    parse_again,                \* the value of the call on the minified value, once made
    \* ---- Execute in Simple mode ----
    sim_agent,            \* class of the agent whose Execute runs, or "none"
    sim_outcome,          \* "idle" | "running" | "success" | "ToolCallError" | "ParseError"
    sim_calls,            \* Tool/Model Caller invocations so far
    sim_updates,          \* calls of the agent's update_state_result
    sim_base_updates,     \* calls of BaseAgent.update_state_result through super()
    sim_written,          \* state fields written by update_state_result
    \* ---- a run of the pdf2ppt_optimized workflow ----
    ppt_node,             \* the node to run next, "none", "returned" or "raised"
    ppt_request,          \* input_type, whether pdf_file is set, pages of the input
    ppt_state,            \* the fields of Paper2FigureState the nodes write
    ppt_branch,           \* mineru_branch and sam_branch: idle, running, returned, raised
    ppt_branch_state,     \* per branch, the fields of its branch_state
    ppt_writes,           \* per branch, the (object, field) pairs it has written
    ppt_files,            \* files on disk
    ppt_failures,         \* tool failures that happened in the run
    ppt_error,            \* the exception that left Invoke, or "none"
    \* ---- execute_pre_tools of the table agents ----
    pt_agent,          \* the agent class, or "none"
    pt_registered,     \* names for which a pre-tool function is registered for the role
    pt_supplied,       \* state.pre_tool_results as the caller set it
    pt_results,        \* what execute_pre_tools returned
    pt_done,           \* whether execute_pre_tools has returned
    \* ---- image API calls of one node ----
    img_site,         \* the workflow whose node makes the calls, or "none"
    img_task,         \* per image: where its _call_image_api_with_retry stands
    img_returned,     \* whether the node has gone on past the calls
    \* ---- code_executor_node of paper2expfigure ----
    ce_suitable,     \* per extracted table: is_suitable_for_chart of its chart config
    ce_task,         \* per table: "none", "pending", or how its task ended
    ce_returned,     \* per table: the pair its task returned
    ce_charts,       \* state.generated_charts
    ce_done,         \* whether the node has returned
    \* ---- vlm_recognition_node of pdf2ppt_qwenvl ----
    vr_images,     \* number of slide images of the state
    vr_task,       \* per image: where its _process_single_image stands
    vr_entry,      \* per image: the entry its _process_single_image returned
    vr_pages,      \* state.vlm_pages
    vr_phase       \* "none", "entered", "gathering" or "returned"

bvars == <<wf_name, entry_point, nodes, edges, conditional_edges, built>>
ivars == <<graph, state, cur, visited, routed, status, failed>>

rvars == <<react_requested, react_config, react_validators, react_attempt, react_calls,
           react_last, react_only_invalid, react_feedback, react_outcome, react_result,
           react_error, react_updates>>

pvars == <<par_requested, par_config, par_items, par_after_error, par_returned>>

fvars == <<fan_node, fan_input, fan_phase, fan_batches, fan_task, fan_results,
           fan_completed, fan_output, fan_writes>>

jvars == <<parse_pieces, parse_merge_dicts, parse_strip_double_braces, parse_step,
           parse_value, parse_objs, parse_again>>

svars == <<sim_agent, sim_outcome, sim_calls, sim_updates, sim_base_updates, sim_written>>

dvars == <<ppt_node, ppt_request, ppt_state, ppt_branch, ppt_branch_state, ppt_writes, ppt_files, ppt_failures, ppt_error>>

tvars == <<pt_agent, pt_registered, pt_supplied, pt_results, pt_done>>

avars == <<img_site, img_task, img_returned>>

cvars == <<ce_suitable, ce_task, ce_returned, ce_charts, ce_done>>

qvars == <<vr_images, vr_task, vr_entry, vr_pages, vr_phase>>

vars == <<bvars, ivars, rvars, pvars, fvars, jvars, svars, dvars, tvars, avars, cvars, qvars>>

\* what the actions of one subsystem leave alone
notB == <<ivars, rvars, pvars, fvars, jvars, svars, dvars, tvars, avars, cvars, qvars>>
notI == <<bvars, rvars, pvars, fvars, jvars, svars, dvars, tvars, avars, cvars, qvars>>
notR == <<bvars, ivars, pvars, fvars, jvars, svars, dvars, tvars, avars, cvars, qvars>>
notP == <<bvars, ivars, rvars, fvars, jvars, svars, dvars, tvars, avars, cvars, qvars>>
notF == <<bvars, ivars, rvars, pvars, jvars, svars, dvars, tvars, avars, cvars, qvars>>
notS == <<bvars, ivars, rvars, pvars, fvars, jvars, dvars, tvars, avars, cvars, qvars>>
notJ == <<bvars, ivars, rvars, pvars, fvars, svars, dvars, tvars, avars, cvars, qvars>>
notT == <<bvars, ivars, rvars, pvars, fvars, jvars, svars, dvars, avars, cvars, qvars>>
notD == <<bvars, ivars, rvars, pvars, fvars, jvars, svars, tvars, avars, cvars, qvars>>
notC == <<bvars, ivars, rvars, pvars, fvars, jvars, svars, dvars, tvars, avars, qvars>>
notA == <<bvars, ivars, rvars, pvars, fvars, jvars, svars, dvars, tvars, cvars, qvars>>
notQ == <<bvars, ivars, rvars, pvars, fvars, jvars, svars, dvars, tvars, avars, cvars>>

(***************************************************************************)
(*                    Workflow graphs of the repository                    *)
(***************************************************************************)

\* langgraph's reserved terminal name, used by wf_paper2video.py as edge
\* target and router result
END == "__end__"

Workflows ==
    {"paper2video", "pdf2ppt_optimized", "image2ppt", "paper2page_content",
     "paper2expfigure", "paper2technical", "paper2figure_image_only"}

EntryPointOf(wf) ==
    IF wf = "paper2video" THEN "p2v_extract_pdf" ELSE "_start_"

Paper2VideoNodes ==
    {"p2v_extract_pdf", "compile_beamer", "p2v_beamer_code_debug",
     "p2v_subtitle_and_cursor", "p2v_generate_speech", "pdf2ppt", "_end_"}

Paper2VideoEdges ==
    << <<"p2v_extract_pdf", "compile_beamer">>,
       <<"p2v_beamer_code_debug", END>> >>

Pdf2PptOptimizedNodes ==
    {"_start_", "pdf_to_images", "parallel_processing", "slides_ppt_generation", "_end_"}

\* add_edges(edges) followed by add_edge("_start_", "pdf_to_images")
Pdf2PptOptimizedEdges ==
    << <<"pdf_to_images", "parallel_processing">>,
       <<"parallel_processing", "slides_ppt_generation">>,
       <<"slides_ppt_generation", "_end_">>,
       <<"_start_", "pdf_to_images">> >>

Image2PptNodes ==
    {"_start_", "input_processing", "vlm_only", "debug_draw_and_mask", "_end_"}

\* add_edges(edges) followed by add_edge("_start_", "input_processing")
Image2PptEdges ==
    << <<"input_processing", "vlm_only">>,
       <<"vlm_only", "debug_draw_and_mask">>,
       <<"debug_draw_and_mask", "_end_">>,
       <<"_start_", "input_processing">> >>

Paper2PageContentNodes ==
    {"_start_", "parse_pdf_pages", "prepare_text_input", "ppt_to_images",
     "deep_research_agent", "outline_agent", "_end_"}

Paper2PageContentEdges ==
    << <<"parse_pdf_pages", "outline_agent">>,
       <<"prepare_text_input", "outline_agent">>,
       <<"deep_research_agent", "outline_agent">>,
       <<"ppt_to_images", "_end_">>,
       <<"outline_agent", "_end_">> >>

Paper2ExpFigureNodes ==
    {"_start_", "pdf_to_images_node", "mineru_extract_node", "figure_input_node",
     "text_to_table_image_node", "table_extractor_node", "paper_idea_extractor",
     "chart_type_recommender_node", "code_executor_node", "post_stylize_node",
     "assemble_to_ppt", "_end_"}

Paper2ExpFigureEdges ==
    << <<"pdf_to_images_node", "mineru_extract_node">>,
       <<"mineru_extract_node", "table_extractor_node">>,
       <<"figure_input_node", "chart_type_recommender_node">>,
       <<"text_to_table_image_node", "chart_type_recommender_node">>,
       <<"table_extractor_node", "paper_idea_extractor">>,
       <<"paper_idea_extractor", "chart_type_recommender_node">>,
       <<"chart_type_recommender_node", "code_executor_node">>,
       <<"code_executor_node", "post_stylize_node">>,
       <<"post_stylize_node", "assemble_to_ppt">>,
       <<"assemble_to_ppt", "_end_">> >>

Paper2TechnicalNodes ==
    {"_start_", "paper_idea_extractor", "technical_route_desc_generator",
     "technical_ppt_generator", "_end_"}

Paper2TechnicalEdges ==
    << <<"paper_idea_extractor", "technical_route_desc_generator">>,
       <<"technical_route_desc_generator", "technical_ppt_generator">>,
       <<"technical_ppt_generator", "_end_">> >>

ImageOnlyNodes ==
    {"_start_", "paper_idea_extractor", "figure_desc_generator", "figure_generator", "_end_"}

ImageOnlyEdges ==
    << <<"paper_idea_extractor", "figure_desc_generator">>,
       <<"figure_desc_generator", "figure_generator">>,
       <<"figure_generator", "_end_">> >>

NodesOf(wf) ==
    CASE wf = "paper2video"        -> Paper2VideoNodes
      [] wf = "pdf2ppt_optimized"  -> Pdf2PptOptimizedNodes
      [] wf = "image2ppt"          -> Image2PptNodes
      [] wf = "paper2page_content" -> Paper2PageContentNodes
      [] wf = "paper2expfigure"    -> Paper2ExpFigureNodes
      [] wf = "paper2technical"    -> Paper2TechnicalNodes
      [] wf = "paper2figure_image_only" -> ImageOnlyNodes

EdgesOf(wf) ==
    CASE wf = "paper2video"        -> Paper2VideoEdges
      [] wf = "pdf2ppt_optimized"  -> Pdf2PptOptimizedEdges
      [] wf = "image2ppt"          -> Image2PptEdges
      [] wf = "paper2page_content" -> Paper2PageContentEdges
      [] wf = "paper2expfigure"    -> Paper2ExpFigureEdges
      [] wf = "paper2technical"    -> Paper2TechnicalEdges
      [] wf = "paper2figure_image_only" -> ImageOnlyEdges

\* add_conditional_edge(src, router) of each factory: src -> router name
ConditionalEdgesOf(wf) ==
    CASE wf = "paper2video"        -> [n \in {"compile_beamer"} |-> "compile_beamer_condition"]
      [] wf = "paper2page_content" -> [n \in {"_start_"} |-> "_route_input"]
      [] wf = "paper2expfigure"    -> [n \in {"_start_"} |-> "_route_by_input_type"]
      [] wf = "paper2technical"    -> [n \in {"_start_"} |-> "technical.set_entry_node"]
      [] wf = "paper2figure_image_only" -> [n \in {"_start_"} |-> "image_only.set_entry_node"]
      [] OTHER                     -> <<>>

(***************************************************************************)
(*                          GenericGraphBuilder                            *)
(***************************************************************************)

\* how many edges beyond a factory's own the builder model adds
MaxExtraEdges == 2

\* names the free-form builder calls draw from: a registered start and end
\* node, the reserved terminal name and a name no factory registers
ProbeNames == {"_start_", "_end_", END, "ghost"}

Routers ==
    {"compile_beamer_condition", "_route_input", "_route_by_input_type",
     "technical.set_entry_node", "image_only.set_entry_node"}

SeqToSet(s) == {s[i] : i \in DOMAIN s}

BaseEdgeCount == IF wf_name \in Workflows THEN Len(EdgesOf(wf_name)) ELSE 0

\* mutant: only the source of an edge is looked up
DanglingEdgesSourceOnly(ns, es) ==
    {e \in SeqToSet(es) : e[1] \notin ns}

\* edges with a source that is not registered, or a target that is neither
\* registered nor the reserved terminal name
DanglingEdges(ns, es) ==
    {e \in SeqToSet(es) : e[1] \notin ns \/ e[2] \notin (ns \cup {END})}

\* Build(): entry point registered, no dangling static edge, every
\* conditional edge leaves a registered node
GraphValid(ep, ns, es, ce) ==
    /\ ep \in ns
    /\ DanglingEdges(ns, es) = {}
    /\ \A src \in DOMAIN ce : src \in ns

IdleBuild ==
    /\ wf_name = "custom" /\ entry_point = "_start_" /\ nodes = {} /\ edges = <<>>
    /\ conditional_edges = <<>> /\ built = "unbuilt"

IdleInvoke ==
    /\ graph = "none" /\ state = <<>> /\ cur = <<>> /\ visited = <<>>
    /\ routed = <<>> /\ status = <<>> /\ failed = <<>>

\* no agent created yet
NoConfig == [mode |-> "none"]

IdleReact ==
    /\ react_requested = 0 /\ react_config = NoConfig /\ react_validators = 0
    /\ react_attempt = 0 /\ react_calls = 0 /\ react_last = [kind |-> "none", diag |-> "none"]
    /\ react_only_invalid = TRUE /\ react_feedback = "none" /\ react_outcome = "idle"
    /\ react_result = 0 /\ react_error = "none" /\ react_updates = 0

IdleParallel ==
    /\ par_requested = 0 /\ par_config = NoConfig /\ par_items = <<>>
    /\ par_after_error = FALSE /\ par_returned = <<>>

IdleFanOut ==
    /\ fan_node = "none" /\ fan_input = <<>> /\ fan_phase = "entered" /\ fan_batches = <<>>
    /\ fan_task = <<>> /\ fan_results = <<>> /\ fan_completed = <<>> /\ fan_output = <<>>
    /\ fan_writes = <<>>

IdleParse ==
    /\ parse_pieces = <<>> /\ parse_merge_dicts = FALSE /\ parse_strip_double_braces = FALSE
    /\ parse_step = "none" /\ parse_value = [t |-> "none", v |-> <<>>] /\ parse_objs = <<>>
    /\ parse_again = [t |-> "none", v |-> <<>>]

IdleSimple ==
    /\ sim_agent = "none" /\ sim_outcome = "idle" /\ sim_calls = 0
    /\ sim_updates = 0 /\ sim_base_updates = 0 /\ sim_written = {}

IdlePdf2Ppt ==
    /\ ppt_node = "none" /\ ppt_request = <<>> /\ ppt_state = <<>> /\ ppt_branch = <<>>
    /\ ppt_branch_state = <<>> /\ ppt_writes = <<>> /\ ppt_files = {} /\ ppt_failures = {}
    /\ ppt_error = "none"

IdlePreTools ==
    /\ pt_agent = "none" /\ pt_registered = {} /\ pt_supplied = <<>> /\ pt_results = <<>>
    /\ pt_done = FALSE

IdleImageApi ==
    /\ img_site = "none" /\ img_task = <<>> /\ img_returned = FALSE

IdleCodeExecutor ==
    /\ ce_suitable = <<>> /\ ce_task = <<>> /\ ce_returned = <<>> /\ ce_charts = <<>>
    /\ ce_done = FALSE

IdleVlm ==
    /\ vr_images = 0 /\ vr_task = <<>> /\ vr_entry = <<>> /\ vr_pages = <<>>
    /\ vr_phase = "none"

\* GenericGraphBuilder(state_model, entry_point)
InitBuilder ==
    /\ IdleInvoke /\ IdleReact /\ IdleParallel /\ IdleFanOut /\ IdleParse /\ IdleSimple /\ IdlePdf2Ppt /\ IdlePreTools /\ IdleImageApi /\ IdleCodeExecutor /\ IdleVlm
    /\ wf_name = "custom"
    /\ entry_point \in {"_start_", "ghost"}
    /\ nodes = {}
    /\ edges = <<>>
    /\ conditional_edges = <<>>
    /\ built = "unbuilt"

\* a workflow factory of the repository: constructor, add_nodes, add_edges,
\* add_edge and add_conditional_edge in one call
CreateWorkflowGraph(wf) ==
    /\ built = "unbuilt"
    /\ wf_name = "custom" /\ nodes = {} /\ edges = <<>> /\ conditional_edges = <<>>
    /\ wf_name' = wf
    /\ entry_point' = EntryPointOf(wf)
    /\ nodes' = NodesOf(wf)
    /\ edges' = EdgesOf(wf)
    /\ conditional_edges' = ConditionalEdgesOf(wf)
    /\ UNCHANGED <<notB, built>>

AddNodes(mapping) ==
    /\ built = "unbuilt"
    /\ mapping # {}
    /\ ~ (mapping \subseteq nodes)
    /\ nodes' = nodes \cup mapping
    /\ UNCHANGED <<notB, wf_name, entry_point, edges, conditional_edges, built>>

AddEdge(src, dst) ==
    /\ built = "unbuilt"
    /\ Len(edges) < BaseEdgeCount + MaxExtraEdges
    /\ edges' = Append(edges, <<src, dst>>)
    /\ UNCHANGED <<notB, wf_name, entry_point, nodes, conditional_edges, built>>

\* exactly one router per source: attaching a second overwrites
AddConditionalEdge(src, router) ==
    /\ built = "unbuilt"
    /\ conditional_edges' =
         [n \in DOMAIN conditional_edges \cup {src} |->
             IF n = src THEN router ELSE conditional_edges[n]]
    /\ conditional_edges' # conditional_edges
    /\ UNCHANGED <<notB, wf_name, entry_point, nodes, edges, built>>

Build ==
    /\ built = "unbuilt"
    /\ built' = IF GraphValid(entry_point, nodes, edges, conditional_edges)
                THEN "ok" ELSE "GraphInvalid"
    /\ UNCHANGED <<notB, wf_name, entry_point, nodes, edges, conditional_edges>>

NextBuild ==
    \/ \E wf \in Workflows : CreateWorkflowGraph(wf)
    \/ \E mapping \in SUBSET {"_start_", "_end_"} : AddNodes(mapping)
    \/ \E src \in ProbeNames, dst \in ProbeNames : AddEdge(src, dst)
    \/ \E src \in {"_start_", "ghost"}, router \in Routers : AddConditionalEdge(src, router)
    \/ Build

SpecBuild == InitBuilder /\ [][NextBuild]_vars

(***************************************************************************)
(*                        Claims on the builder                            *)
(***************************************************************************)

Runs == {1, 2}

\* request.input_type values a caller may pass
InputTypes == {"PDF", "pdf", "TEXT", "TOPIC", "PPTX", "FIGURE"}

\* str(t).upper().strip() over InputTypes
UpperStrip(t) == IF t = "pdf" THEN "PDF" ELSE t

\* wf_paper2page_content.py: _route_input
RouteInput(s) ==
    LET t == UpperStrip(s.input_type) IN
    IF t = "PDF" THEN "parse_pdf_pages"
    ELSE IF t = "TEXT" THEN "prepare_text_input"
    ELSE IF t = "TOPIC" THEN "deep_research_agent"
    ELSE IF t \in {"PPT", "PPTX"} THEN "ppt_to_images"
    ELSE "_end_"

\* wf_paper2video.py: compile_beamer_condition
CompileBeamerCondition(s) ==
    IF s.is_beamer_warning THEN "p2v_beamer_code_debug" ELSE END

\* str(input_type).upper() over InputTypes
Upper(t) == IF t = "pdf" THEN "PDF" ELSE t

\* mutant: the PDF route names the node as wf_pdf2ppt_optimized.py registers
\* it, a name create_paper2expfigure_graph does not register
RouteByInputTypeUnregistered(s) ==
    IF Upper(s.input_type) = "FIGURE" THEN "figure_input_node"
    ELSE IF Upper(s.input_type) = "TEXT" THEN "text_to_table_image_node"
    ELSE "pdf_to_images"

\* wf_paper2expfigure.py: _route_by_input_type
RouteByInputType(s) ==
    IF Upper(s.input_type) = "FIGURE" THEN "figure_input_node"
    ELSE IF Upper(s.input_type) = "TEXT" THEN "text_to_table_image_node"
    ELSE "pdf_to_images_node"

\* mutant: a type without a branch is treated as PDF
TechnicalSetEntryNodeDefaultPdf(s) ==
    IF s.input_type = "TEXT" THEN "technical_route_desc_generator"
    ELSE "paper_idea_extractor"

\* wf_paper2technical.py: set_entry_node (the type is compared as given)
TechnicalSetEntryNode(s) ==
    IF s.input_type = "PDF" THEN "paper_idea_extractor"
    ELSE IF s.input_type = "TEXT" THEN "technical_route_desc_generator"
    ELSE "_end_"

\* wf_paper2figure_image_only.py: set_entry_node (the type is compared as given)
ImageOnlySetEntryNode(s) ==
    IF s.input_type = "PDF" THEN "paper_idea_extractor"
    ELSE IF s.input_type = "TEXT" THEN "figure_desc_generator"
    ELSE IF s.input_type = "FIGURE" THEN "figure_generator"
    ELSE "_end_"

CallRouter(router, s) ==
    CASE router = "_route_input"             -> RouteInput(s)
      [] router = "compile_beamer_condition" -> CompileBeamerCondition(s)
      [] router = "_route_by_input_type"     -> RouteByInputType(s)
      [] router = "technical.set_entry_node" -> TechnicalSetEntryNode(s)
      [] router = "image_only.set_entry_node" -> ImageOnlySetEntryNode(s)

\* the states a node function may return: compile_beamer_node overwrites
\* is_beamer_warning with the outcome of compile_tex, the other nodes leave
\* the routed-on fields alone
NodeResults(n, s) ==
    IF n = "compile_beamer"
    THEN {[s EXCEPT !.is_beamer_warning = w] : w \in BOOLEAN}
    ELSE {s}

StaticTargets(wf, n) ==
    LET es == EdgesOf(wf) IN
    {es[i][2] : i \in {j \in DOMAIN es : es[j][1] = n}}

HasOutgoing(wf, n) ==
    n \in DOMAIN ConditionalEdgesOf(wf) \/ StaticTargets(wf, n) # {}

\* mutant: the router is not consulted, the first registered node is taken
NextNodeIgnoringRouter(wf, n, s) ==
    IF StaticTargets(wf, n) # {} THEN CHOOSE d \in StaticTargets(wf, n) : TRUE
    ELSE IF n \in DOMAIN ConditionalEdgesOf(wf)
         THEN CHOOSE d \in NodesOf(wf) \ {n, EntryPointOf(wf)} : TRUE
    ELSE END

\* mutant: a static edge is skipped when the state carries a warning flag
NextNodeStateDependent(wf, n, s) ==
    IF n \in DOMAIN ConditionalEdgesOf(wf)
    THEN CallRouter(ConditionalEdgesOf(wf)[n], s)
    ELSE IF StaticTargets(wf, n) # {}
    THEN LET d == CHOOSE x \in StaticTargets(wf, n) : TRUE IN
         IF s.is_beamer_warning /\ StaticTargets(wf, d) # {}
         THEN CHOOSE x \in StaticTargets(wf, d) : TRUE
         ELSE d
    ELSE END

\* the node after n: the router's answer on the updated state when n has a
\* conditional edge, else the target of its static edge, else none (END)
NextNode(wf, n, s) ==
    IF n \in DOMAIN ConditionalEdgesOf(wf)
    THEN CallRouter(ConditionalEdgesOf(wf)[n], s)
    ELSE IF StaticTargets(wf, n) # {}
    THEN CHOOSE d \in StaticTargets(wf, n) : TRUE
    ELSE END

InitInvoke ==
    /\ IdleBuild /\ IdleReact /\ IdleParallel /\ IdleFanOut /\ IdleParse /\ IdleSimple /\ IdlePdf2Ppt /\ IdlePreTools /\ IdleImageApi /\ IdleCodeExecutor /\ IdleVlm
    /\ graph \in Workflows
    /\ state \in [Runs -> [input_type : InputTypes, is_beamer_warning : BOOLEAN]]
    /\ cur = [r \in Runs |-> EntryPointOf(graph)]
    /\ visited = [r \in Runs |-> <<>>]
    /\ routed = [r \in Runs |-> <<>>]
    /\ status = [r \in Runs |-> "running"]
    /\ failed = [r \in Runs |-> "none"]

\* mutant: the failure is swallowed and the engine follows the node's edge
\* with the state as the node left it
PropagateErrorSwallowed(r) ==
    LET n == cur[r] nxt == NextNode(graph, n, state[r]) IN
    /\ routed' = [routed EXCEPT ![r] = IF HasOutgoing(graph, n) THEN Append(@, n) ELSE @]
    /\ status' = [status EXCEPT ![r] = IF nxt = END THEN "done" ELSE "running"]
    /\ cur' = [cur EXCEPT ![r] = nxt]

\* the engine's reaction to a raising node: the error leaves Invoke, no
\* edge is evaluated and no node is scheduled
PropagateError(r) ==
    /\ status' = [status EXCEPT ![r] = "error"]
    /\ UNCHANGED <<cur, routed>>

\* the node function of the current node raises (the terminal lambda
\* state: state cannot)
NodeRaises(r) ==
    /\ status[r] = "running"
    /\ cur[r] # "_end_"
    /\ visited' = [visited EXCEPT ![r] = Append(@, cur[r])]
    /\ failed' = [failed EXCEPT ![r] = cur[r]]
    /\ PropagateError(r)
    /\ UNCHANGED <<notI, graph, state>>

\* the node function returns an updated state; the engine then follows the
\* node's conditional or static edge, or ends at a node without one
NodeReturns(r) ==
    /\ status[r] = "running"
    /\ \E s2 \in NodeResults(cur[r], state[r]) :
         LET n == cur[r] nxt == NextNode(graph, n, s2) IN
         /\ state' = [state EXCEPT ![r] = s2]
         /\ visited' = [visited EXCEPT ![r] = Append(@, n)]
         /\ routed' = [routed EXCEPT ![r] = IF HasOutgoing(graph, n) THEN Append(@, n) ELSE @]
         /\ status' = [status EXCEPT ![r] = IF nxt = END THEN "done" ELSE "running"]
         /\ cur' = [cur EXCEPT ![r] = nxt]
    /\ UNCHANGED <<notI, graph, failed>>

NextInvoke ==
    \/ \E r \in Runs : NodeReturns(r)
    \/ \E r \in Runs : NodeRaises(r)

SpecInvoke == InitInvoke /\ [][NextInvoke]_vars

(***************************************************************************)
(*                          Claims on Invoke                               *)
(***************************************************************************)

IndexOf(seq, x) == CHOOSE i \in DOMAIN seq : seq[i] = x

\* what a run did right after position k of its node sequence: the next
\* node it started, or END when it returned there
AfterPosition(r, k) ==
    IF Len(visited[r]) > k THEN visited[r][k + 1]
    ELSE IF status[r] = "done" THEN END
    ELSE cur[r]

\* C6: once a node function has raised, Invoke has ended with that error:
\* the failing node is the last node run, and neither its outgoing edge nor
\* its router was evaluated.
C6_ErrorLeavesInvoke ==
    \A r \in Runs :
        failed[r] # "none" =>
            /\ status[r] = "error"
            /\ visited[r][Len(visited[r])] = failed[r]
            /\ Len(routed[r]) = Len(visited[r]) - 1
            /\ \A i \in DOMAIN routed[r] : routed[r][i] = visited[r][i]

\* a node with an outgoing edge raised after two other nodes had run
C6_Witness ==
    \E r \in Runs :
        /\ failed[r] = "parallel_processing"
        /\ graph = "pdf2ppt_optimized"
        /\ status[r] = "error"
        /\ HasOutgoing(graph, failed[r])
        /\ Len(visited[r]) = 3

\* C7: in a graph with only static edges every run starts at the entry
\* node, moves along edges of the edge list only, ends only at a node
\* without outgoing edge, and two runs on different states that both return
\* have visited the same nodes.
C7_StaticPath ==
    ConditionalEdgesOf(graph) = <<>> =>
        /\ \A r \in Runs :
            /\ visited[r] # <<>> => visited[r][1] = EntryPointOf(graph)
            /\ \A i \in 1 .. (Len(visited[r]) - 1) :
                   <<visited[r][i], visited[r][i + 1]>> \in SeqToSet(EdgesOf(graph))
            /\ status[r] = "done" =>
                   StaticTargets(graph, visited[r][Len(visited[r])]) = {}
        /\ (\A r \in Runs : status[r] = "done") => visited[1] = visited[2]

\* both runs of the static pdf2ppt graph returned, from different states
C7_Witness ==
    /\ graph = "pdf2ppt_optimized"
    /\ state[1] # state[2]
    /\ state[1].is_beamer_warning
    /\ \A r \in Runs : status[r] = "done"
    /\ visited[1] = <<"_start_", "pdf_to_images", "parallel_processing",
                      "slides_ppt_generation", "_end_">>

\* C8: when the router of a conditional node answers X for one run's state
\* and Y # X for the other's, the two node sequences are equal up to and
\* including the conditional node, and right after it one run goes to X
\* and the other to Y.
C8_DivergeAtConditional ==
    \A c \in DOMAIN ConditionalEdgesOf(graph) :
        LET X == CallRouter(ConditionalEdgesOf(graph)[c], state[1])
            Y == CallRouter(ConditionalEdgesOf(graph)[c], state[2])
        IN  (c \in SeqToSet(routed[1]) /\ c \in SeqToSet(routed[2]) /\ X # Y) =>
                LET k1 == IndexOf(visited[1], c)
                    k2 == IndexOf(visited[2], c)
                IN  /\ SubSeq(visited[1], 1, k1) = SubSeq(visited[2], 1, k2)
                    /\ AfterPosition(1, k1) = X
                    /\ AfterPosition(2, k2) = Y

\* one run took the PDF branch and the other the TEXT branch of
\* paper2page_content, and both returned
C8_Witness ==
    /\ graph = "paper2page_content"
    /\ visited[1] = <<"_start_", "parse_pdf_pages", "outline_agent", "_end_">>
    /\ visited[2] = <<"_start_", "prepare_text_input", "outline_agent", "_end_">>
    /\ \A r \in Runs : status[r] = "done"

\* the names Invoke may go to: a node registered by the factory, or
\* langgraph's reserved terminal name
Registered(wf) == NodesOf(wf) \cup {END}

\* C19: whenever a run went on from a node with a conditional edge, the name
\* its router returned, which is where the run went next, is a node the same
\* factory registered or the reserved terminal name.
C19_RouterResultRegistered ==
    \A r \in Runs : \A k \in DOMAIN visited[r] :
        /\ visited[r][k] \in DOMAIN ConditionalEdgesOf(graph)
        /\ ~(k = Len(visited[r]) /\ status[r] = "error")
        => AfterPosition(r, k) \in Registered(graph)

\* the workflows whose _start_ node has the router on input_type
RoutedOnInputType ==
    {"paper2page_content", "paper2expfigure", "paper2technical", "paper2figure_image_only"}

\* the input types a workflow's router has a branch for
SupportedTypes(wf) ==
    CASE wf = "paper2page_content"      -> {"PDF", "pdf", "TEXT", "TOPIC", "PPTX"}
      [] wf = "paper2expfigure"         -> {"PDF", "pdf", "TEXT", "FIGURE"}
      [] wf = "paper2technical"         -> {"PDF", "TEXT"}
      [] wf = "paper2figure_image_only" -> {"PDF", "TEXT", "FIGURE"}
      [] OTHER                          -> InputTypes

\* the run went from _start_ to _end_ and no further
EndedUnprocessed(r) ==
    /\ \A k \in DOMAIN visited[r] : visited[r][k] \in {"_start_", "_end_"}
    /\ Len(visited[r]) >= 2 => visited[r][2] = "_end_"
    /\ status[r] = "done" => visited[r] = <<"_start_", "_end_">>

C26_WitnessEnd ==
    \E r \in Runs :
        /\ graph = "paper2technical"
        /\ state[r].input_type = "pdf"
        /\ status[r] = "done"
        /\ visited[r] = <<"_start_", "_end_">>

\* _route_by_input_type sent one run to the FIGURE node and the other to the
\* PDF node of paper2expfigure, and both nodes ran
C19_Witness ==
    /\ graph = "paper2expfigure"
    /\ Len(visited[1]) >= 2 /\ Len(visited[2]) >= 2
    /\ visited[1][1] = "_start_" /\ visited[1][2] = "figure_input_node"
    /\ visited[2][1] = "_start_" /\ visited[2][2] = "pdf_to_images_node"

\* compile_beamer_condition answered the reserved terminal name and the run
\* of paper2video returned right after compile_beamer
C19_WitnessSentinel ==
    \E r \in Runs :
        /\ graph = "paper2video"
        /\ visited[r] = <<"p2v_extract_pdf", "compile_beamer">>
        /\ ~state[r].is_beamer_warning
        /\ status[r] = "done"

(***************************************************************************)
(*                        Execute in React mode                            *)
(***************************************************************************)

\* create_react_agent(name, max_retries: int = 3, ...)
DefaultMaxRetries == 3
\* beamer_code_debug_node: create_react_agent(..., max_retries=10, ...)
BeamerDebugMaxRetries == 10
\* generate_outline_for_batch: create_react_agent(..., max_retries=5, ...)
OutlineMaxRetries == 5

\* largest max_retries of the callers outside the repository's call sites
MaxRetriesArg == 2
\* largest number of validators a config carries
MaxValidators == 2

RequestedRetries ==
    (0 .. MaxRetriesArg) \cup {DefaultMaxRetries, OutlineMaxRetries, BeamerDebugMaxRetries}

\* mutant: the max_retries argument is dropped and the default is used
CreateReactAgentDefaultOnly(max_retries) ==
    [mode |-> "react", max_retries |-> DefaultMaxRetries]

\* create_react_agent: config = ReactConfig(max_retries=max_retries, **kwargs)
CreateReactAgent(max_retries) ==
    [mode |-> "react", max_retries |-> max_retries]

ValidatorDiag(k) == IF k = 1 THEN "validator_1" ELSE "validator_2"

InitReact ==
    /\ IdleBuild /\ IdleInvoke /\ IdleParallel /\ IdleFanOut /\ IdleParse /\ IdleSimple /\ IdlePdf2Ppt /\ IdlePreTools /\ IdleImageApi /\ IdleCodeExecutor /\ IdleVlm
    /\ react_requested \in RequestedRetries
    /\ react_validators \in 0 .. MaxValidators
    /\ react_config = NoConfig
    /\ react_attempt = 0 /\ react_calls = 0 /\ react_last = [kind |-> "none", diag |-> "none"]
    /\ react_only_invalid = TRUE /\ react_feedback = "none" /\ react_outcome = "idle"
    /\ react_result = 0 /\ react_error = "none" /\ react_updates = 0

\* agent = create_react_agent(...); agent.execute(state) begins
ReactExecute ==
    /\ react_outcome = "idle"
    /\ react_config' = CreateReactAgent(react_requested)
    /\ react_outcome' = "running"
    /\ UNCHANGED <<notR, react_requested, react_validators, react_attempt, react_calls,
                   react_last, react_only_invalid, react_feedback, react_result,
                   react_error, react_updates>>

\* mutant: on exhaustion the last attempt's output is accepted as it is
ReactExhaustedAccepts(last, attempt) ==
    [outcome |-> "success", result |-> attempt, error |-> "none", updates |-> 1]

\* all attempts used up: the last diagnostic is the terminal error and
\* nothing is merged into the state
ReactExhausted(last, attempt) ==
    [outcome |-> "ValidationExhausted", result |-> 0, error |-> last.diag, updates |-> 0]

\* mutant: a failed attempt ends the call at once with its diagnostic, as a
\* failure does in Simple mode
ReactAttemptFailsTerminal(kind, diag) ==
    /\ react_outcome = "running"
    /\ react_attempt < react_config.max_retries + 1
    /\ react_attempt' = react_attempt + 1
    /\ react_calls' = react_calls + 1
    /\ react_last' = [kind |-> kind, diag |-> diag]
    /\ react_only_invalid' = (react_only_invalid /\ kind = "invalid")
    /\ react_outcome' = diag
    /\ react_error' = diag
    /\ UNCHANGED <<notR, react_requested, react_config, react_validators, react_feedback,
                   react_result, react_updates>>

\* one attempt that does not yield a validated result: the Tool/Model
\* Caller fails (kind "tool"), the parser fails (kind "parse") or validator
\* k is the first to reject the parsed result (kind "invalid")
ReactAttemptFails(kind, diag) ==
    /\ react_outcome = "running"
    /\ react_attempt < react_config.max_retries + 1
    /\ react_attempt' = react_attempt + 1
    /\ react_calls' = react_calls + 1
    /\ react_last' = [kind |-> kind, diag |-> diag]
    /\ react_only_invalid' = (react_only_invalid /\ kind = "invalid")
    /\ IF react_attempt' = react_config.max_retries + 1
       THEN LET e == ReactExhausted(react_last', react_attempt') IN
            /\ react_outcome' = e.outcome
            /\ react_result' = e.result
            /\ react_error' = e.error
            /\ react_updates' = react_updates + e.updates
            /\ UNCHANGED react_feedback
       ELSE /\ react_feedback' = diag
            /\ UNCHANGED <<react_outcome, react_result, react_error, react_updates>>
    /\ UNCHANGED <<notR, react_requested, react_config, react_validators>>

ReactToolError == ReactAttemptFails("tool", "ToolCallError")

ReactParseError == ReactAttemptFails("parse", "ParseError")

ReactValidationFails ==
    \E k \in 1 .. react_validators : ReactAttemptFails("invalid", ValidatorDiag(k))

\* invoke, parse, every validator accepts: merge through update_state_result
ReactAttemptSucceeds ==
    /\ react_outcome = "running"
    /\ react_attempt < react_config.max_retries + 1
    /\ react_attempt' = react_attempt + 1
    /\ react_calls' = react_calls + 1
    /\ react_last' = [kind |-> "valid", diag |-> "none"]
    /\ react_only_invalid' = FALSE
    /\ react_outcome' = "success"
    /\ react_result' = react_attempt'
    /\ react_updates' = react_updates + 1
    /\ UNCHANGED <<notR, react_requested, react_config, react_validators, react_feedback,
                   react_error>>

NextReact ==
    \/ ReactExecute
    \/ ReactToolError
    \/ ReactParseError
    \/ ReactValidationFails
    \/ ReactAttemptSucceeds

SpecReact == InitReact /\ [][NextReact]_vars

(***************************************************************************)
(*                        Claims on React mode                             *)
(***************************************************************************)

ReactReturned == react_outcome \in {"success", "ValidationExhausted"}

\* C3: when Execute has returned and every attempt ended in a validator
\* failure, the Tool/Model Caller was invoked exactly max_retries + 1 times
\* (max_retries as the caller passed it) and the outcome is
\* ValidationExhausted.
C3_ExactlyMaxRetriesPlusOne ==
    (ReactReturned /\ react_only_invalid) =>
        /\ react_calls = react_requested + 1
        /\ react_outcome = "ValidationExhausted"

\* the beamer debug agent (max_retries = 10) ran out of attempts on
\* validator failures alone
C3_Witness ==
    /\ react_outcome = "ValidationExhausted"
    /\ react_only_invalid
    /\ react_requested = BeamerDebugMaxRetries
    /\ react_calls = 11

\* C4: a success carries the result of the attempt that produced it, and
\* that attempt parsed and passed every validator; on exhaustion nothing is
\* merged and the terminal error is the last attempt's diagnostic.
C4_NeverUnvalidated ==
    /\ react_outcome = "success" =>
          /\ react_last.kind = "valid"
          /\ react_result = react_attempt
          /\ react_updates = 1
    /\ react_outcome = "ValidationExhausted" =>
          /\ react_last.kind # "valid"
          /\ react_result = 0
          /\ react_updates = 0
          /\ react_error = react_last.diag
          /\ react_attempt = react_config.max_retries + 1

\* exhaustion whose last attempt was rejected by the second validator
C4_Witness ==
    /\ react_outcome = "ValidationExhausted"
    /\ react_error = "validator_2"
    /\ react_feedback = "ToolCallError"
    /\ react_attempt = 3

(***************************************************************************)
(*                       Execute in Parallel mode                          *)
(***************************************************************************)

\* create_parallel_agent(name, concurrency_limit: int = 5, ...)
DefaultConcurrencyLimit == 5

\* largest concurrency_limit a caller passes besides the default
MaxLimitArg == 2
\* largest number of input items of one Execute call
MaxItems == 6

RequestedLimits == (1 .. MaxLimitArg) \cup {DefaultConcurrencyLimit}

\* mutant: the limit handed to the config is one too large
CreateParallelAgentOffByOne(concurrency_limit) ==
    [mode |-> "parallel", concurrency_limit |-> concurrency_limit + 1]

\* create_parallel_agent: config = ParallelConfig(concurrency_limit=concurrency_limit, **kwargs)
CreateParallelAgent(concurrency_limit) ==
    [mode |-> "parallel", concurrency_limit |-> concurrency_limit]

InFlight(items) == {i \in DOMAIN items : items[i] = "inflight"}

InitParallel ==
    /\ IdleBuild /\ IdleInvoke /\ IdleReact /\ IdleFanOut /\ IdleParse /\ IdleSimple /\ IdlePdf2Ppt /\ IdlePreTools /\ IdleImageApi /\ IdleCodeExecutor /\ IdleVlm
    /\ par_requested \in RequestedLimits
    /\ par_config = NoConfig
    /\ \E n \in 1 .. MaxItems : par_items = [i \in 1 .. n |-> "queued"]
    /\ par_after_error = FALSE
    /\ par_returned = <<>>

\* agent = create_parallel_agent(...); agent.execute(state) begins
ParallelExecute ==
    /\ par_config = NoConfig
    /\ par_config' = CreateParallelAgent(par_requested)
    /\ UNCHANGED <<notP, par_requested, par_items, par_after_error, par_returned>>

\* an item takes a free slot and its Tool/Model Caller invocation begins
ParallelStart(i) ==
    /\ par_config # NoConfig /\ par_returned = <<>>
    /\ par_items[i] = "queued"
    /\ Cardinality(InFlight(par_items)) < par_config.concurrency_limit
    /\ par_items' = [par_items EXCEPT ![i] = "inflight"]
    /\ par_after_error' = (par_after_error \/ \E j \in DOMAIN par_items : par_items[j] = "error")
    /\ UNCHANGED <<notP, par_requested, par_config, par_returned>>

\* the item's invocation ends, parsed ("ok") or failed ("error"); its slot frees
ParallelFinish(i, outcome) ==
    /\ par_returned = <<>>
    /\ par_items[i] = "inflight"
    /\ par_items' = [par_items EXCEPT ![i] = outcome]
    /\ par_after_error' = (par_after_error \/ \E j \in DOMAIN par_items : par_items[j] = "error")
    /\ UNCHANGED <<notP, par_requested, par_config, par_returned>>

\* mutant: the first failed item ends the batch
ParallelCollectedOrFailed(items) ==
    \/ \A i \in DOMAIN items : items[i] \in {"ok", "error"}
    \/ \E i \in DOMAIN items : items[i] = "error"

\* every item has produced an outcome
ParallelCollected(items) ==
    \A i \in DOMAIN items : items[i] \in {"ok", "error"}

\* Execute returns the per-item outcomes together
ParallelReturn ==
    /\ par_config # NoConfig /\ par_returned = <<>>
    /\ ParallelCollected(par_items)
    /\ par_returned' = par_items
    /\ UNCHANGED <<notP, par_requested, par_config, par_items, par_after_error>>

NextParallel ==
    \/ ParallelExecute
    \/ \E i \in DOMAIN par_items : ParallelStart(i)
    \/ \E i \in DOMAIN par_items, outcome \in {"ok", "error"} : ParallelFinish(i, outcome)
    \/ ParallelReturn

SpecParallel == InitParallel /\ [][NextParallel]_vars

(***************************************************************************)
(*                       Claims on Parallel mode                           *)
(***************************************************************************)

\* C5: at every moment the number of Tool/Model Caller invocations in
\* flight is at most the concurrency_limit the caller asked for.
C5_InFlightWithinLimit ==
    Cardinality(InFlight(par_items)) <= par_requested

\* the default limit of 5 is exhausted while a sixth item waits
C5_Witness ==
    /\ par_requested = DefaultConcurrencyLimit
    /\ Cardinality(InFlight(par_items)) = DefaultConcurrencyLimit
    /\ \E i \in DOMAIN par_items : par_items[i] = "queued"

\* C9: Execute returns only when every item has an outcome, success or
\* per-item error, and it returns all of them together; an item that failed
\* left its siblings as they were.
C9_AllOutcomesCollected ==
    par_returned # <<>> =>
        /\ DOMAIN par_returned = DOMAIN par_items
        /\ \A i \in DOMAIN par_items :
               par_returned[i] \in {"ok", "error"} /\ par_returned[i] = par_items[i]

\* a batch returned with a failed and a successful item, the successful
\* one having run on after the failure
C9_Witness ==
    /\ par_returned # <<>>
    /\ par_after_error
    /\ \E i, j \in DOMAIN par_returned : par_returned[i] = "error" /\ par_returned[j] = "ok"

(***************************************************************************)
(*     Intra-node fan-out: outline_for_long_text, vlm_recognition_node     *)
(***************************************************************************)

\* longest long_text, in characters
MaxChars == 4
\* largest state.target_pages
MaxTargetPages == 3
\* largest state.pages_per_batch
MaxPagesPerBatch == 2
\* most pages one outline batch returns
MaxPagesPerTask == 2
\* most slide images of one vlm_recognition_node call
MaxImages == 3

Min(a, b) == IF a < b THEN a ELSE b
Max(a, b) == IF a > b THEN a ELSE b

\* calculate_batches: (start_char, end_char, batch_idx, is_first, is_last)
\* per batch, batch_idx counted from 0
CalculateBatches(total_chars, target_pages, pages_per_batch) ==
    LET num_batches == Max(1, (target_pages + pages_per_batch - 1) \div pages_per_batch)
        chars_per_batch == total_chars \div num_batches
    IN  [k \in 1 .. num_batches |->
            LET i == k - 1 IN
            [start_char |-> i * chars_per_batch,
             end_char   |-> Min((i + 1) * chars_per_batch, total_chars),
             batch_idx  |-> i,
             is_first   |-> (i = 0),
             is_last    |-> (i = num_batches - 1)]]

RECURSIVE Flatten(_)
\* all_pages.extend(chunk_pages) over the results in list order
Flatten(lists) ==
    IF lists = <<>> THEN <<>> ELSE Head(lists) \o Flatten(Tail(lists))

\* all_pages[:target_pages] when there are more pages than asked for
Truncate(pages, target_pages) ==
    IF Len(pages) > target_pages THEN SubSeq(pages, 1, target_pages) ELSE pages

\* mutant: results are taken as the sub-tasks complete
GatherAsCompleted(results, completed) ==
    [k \in DOMAIN completed |-> results[completed[k]]]

\* results = await asyncio.gather(*tasks): one result per task, at the
\* position of its task
Gather(results, completed) ==
    [k \in DOMAIN results |-> results[k]]

\* pages returned by generate_outline_for_batch for batch batch_idx
BatchPages(batch_idx, n) == [k \in 1 .. n |-> <<batch_idx, k>>]

\* entry returned by _process_single_image for page page_idx
PageEntry(page_idx, ok) ==
    [page_idx |-> page_idx, vlm_data |-> IF ok THEN "items" ELSE "empty", error |-> ~ok]

\* the execution state the node was entered with: one object, shared by
\* whoever holds a reference to it
SharedState == <<"state", 0>>

\* mutant: the sub-task works on the state it was handed
TaskStateShared(k) == SharedState

\* generate_outline_for_batch: state = copy.deepcopy(state), an object of
\* the sub-task's own with nothing shared
TaskState(k) == <<"deepcopy", k>>

\* _process_single_image: temp_state = copy.copy(state), an object of the
\* sub-task's own whose attributes are assigned
TempState(k) == <<"copy", k>>

\* the attributes generate_outline_for_batch assigns before the agent runs
BatchFields ==
    {"current_chunk", "chunk_index", "total_chunks", "pages_to_generate", "is_first",
     "is_last"}

\* assignments to attributes of one object
Writes(object, fields) == {<<object, f>> : f \in fields}

InitFanOut ==
    /\ IdleBuild /\ IdleInvoke /\ IdleReact /\ IdleParallel /\ IdleParse /\ IdleSimple /\ IdlePdf2Ppt /\ IdlePreTools /\ IdleImageApi /\ IdleCodeExecutor /\ IdleVlm
    /\ fan_node \in {"outline_for_long_text", "vlm_recognition_node"}
    /\ IF fan_node = "outline_for_long_text"
       THEN fan_input \in [total_chars : 0 .. MaxChars, target_pages : 1 .. MaxTargetPages,
                           pages_per_batch : 1 .. MaxPagesPerBatch]
       ELSE fan_input \in [images : 0 .. MaxImages]
    /\ fan_phase = "entered"
    /\ fan_batches = <<>> /\ fan_task = <<>> /\ fan_results = <<>>
    /\ fan_completed = <<>> /\ fan_output = <<>> /\ fan_writes = <<>>

\* outline_for_long_text up to asyncio.gather: no text ends the node with
\* pagecontent = [], else one sub-task per batch is created
OutlineEnter ==
    /\ fan_node = "outline_for_long_text" /\ fan_phase = "entered"
    /\ IF fan_input.total_chars = 0
       THEN /\ fan_phase' = "returned"
            /\ UNCHANGED <<fan_batches, fan_task, fan_results, fan_writes>>
       ELSE LET batches == CalculateBatches(fan_input.total_chars, fan_input.target_pages,
                                            fan_input.pages_per_batch)
            IN  /\ fan_batches' = batches
                /\ fan_task' = [k \in DOMAIN batches |-> "running"]
                /\ fan_results' = [k \in DOMAIN batches |-> <<>>]
                /\ fan_writes' = [k \in DOMAIN batches |-> {}]
                /\ fan_phase' = "gathering"
    /\ UNCHANGED <<notF, fan_node, fan_input, fan_completed, fan_output>>

\* vlm_recognition_node up to asyncio.gather
VlmEnter ==
    /\ fan_node = "vlm_recognition_node" /\ fan_phase = "entered"
    /\ IF fan_input.images = 0
       THEN /\ fan_phase' = "returned"
            /\ UNCHANGED <<fan_task, fan_results, fan_writes>>
       ELSE /\ fan_task' = [k \in 1 .. fan_input.images |-> "running"]
            /\ fan_results' = [k \in 1 .. fan_input.images |-> <<>>]
            /\ fan_writes' = [k \in 1 .. fan_input.images |-> {}]
            /\ fan_phase' = "gathering"
    /\ UNCHANGED <<notF, fan_node, fan_input, fan_batches, fan_completed, fan_output>>

\* generate_outline_for_batch returns the pages of its batch
OutlineTaskReturns(k, n) ==
    /\ fan_node = "outline_for_long_text" /\ fan_phase = "gathering"
    /\ fan_task[k] = "running"
    /\ fan_task' = [fan_task EXCEPT ![k] = "done"]
    /\ fan_results' = [fan_results EXCEPT ![k] = BatchPages(fan_batches[k].batch_idx, n)]
    /\ fan_writes' = [fan_writes EXCEPT ![k] =
                          Writes(TaskState(k), BatchFields \cup {"pagecontent"})]
    /\ fan_completed' = Append(fan_completed, k)
    /\ UNCHANGED <<notF, fan_node, fan_input, fan_phase, fan_batches, fan_output>>

\* agent.execute raises inside generate_outline_for_batch: gather hands the
\* exception to the node, which has no handler
OutlineTaskRaises(k) ==
    /\ fan_node = "outline_for_long_text" /\ fan_phase = "gathering"
    /\ fan_task[k] = "running"
    /\ fan_task' = [fan_task EXCEPT ![k] = "raised"]
    /\ fan_writes' = [fan_writes EXCEPT ![k] = Writes(TaskState(k), BatchFields)]
    /\ fan_phase' = "raised"
    /\ UNCHANGED <<notF, fan_node, fan_input, fan_batches, fan_results, fan_completed,
                   fan_output>>

\* _process_single_image returns its entry: recognised, or the error entry
\* of its except branch
VlmTaskReturns(k, ok) ==
    /\ fan_node = "vlm_recognition_node" /\ fan_phase = "gathering"
    /\ fan_task[k] = "running"
    /\ fan_task' = [fan_task EXCEPT ![k] = "done"]
    /\ fan_results' = [fan_results EXCEPT ![k] = PageEntry(k - 1, ok)]
    /\ fan_writes' = [fan_writes EXCEPT ![k] =
                          Writes(TempState(k),
                                 {"result_path"} \cup (IF ok THEN {"bbox_result"} ELSE {}))]
    /\ fan_completed' = Append(fan_completed, k)
    /\ UNCHANGED <<notF, fan_node, fan_input, fan_phase, fan_batches, fan_output>>

\* gather returns once every sub-task is done; the node merges and returns
GatherReturns ==
    /\ fan_phase = "gathering"
    /\ \A k \in DOMAIN fan_task : fan_task[k] = "done"
    /\ LET results == Gather(fan_results, fan_completed) IN
       fan_output' = IF fan_node = "outline_for_long_text"
                     THEN Truncate(Flatten(results), fan_input.target_pages)
                     ELSE results
    /\ fan_phase' = "returned"
    /\ UNCHANGED <<notF, fan_node, fan_input, fan_batches, fan_task, fan_results,
                   fan_completed, fan_writes>>

NextFanOut ==
    \/ OutlineEnter
    \/ VlmEnter
    \/ \E k \in DOMAIN fan_task, n \in 0 .. MaxPagesPerTask : OutlineTaskReturns(k, n)
    \/ \E k \in DOMAIN fan_task : OutlineTaskRaises(k)
    \/ \E k \in DOMAIN fan_task, ok \in BOOLEAN : VlmTaskReturns(k, ok)
    \/ GatherReturns

SpecFanOut == InitFanOut /\ [][NextFanOut]_vars

(***************************************************************************)
(*                     Claims on the intra-node fan-out                    *)
(***************************************************************************)

\* C10: whatever order the sub-tasks complete in, the merged result is the
\* sub-tasks' results in the order of their input items: pagecontent is the
\* pages of batch 0, then batch 1, ..., cut at target_pages, and vlm_pages
\* has the entry of page k at position k.
C10_MergedByInputPosition ==
    (fan_phase = "returned" /\ fan_task # <<>>) =>
        IF fan_node = "outline_for_long_text"
        THEN /\ fan_output =
                  Truncate(Flatten([k \in DOMAIN fan_results |-> fan_results[k]]),
                           fan_input.target_pages)
             /\ \A a, b \in DOMAIN fan_output :
                    a < b => \/ fan_output[a][1] < fan_output[b][1]
                             \/ /\ fan_output[a][1] = fan_output[b][1]
                                /\ fan_output[a][2] < fan_output[b][2]
        ELSE /\ Len(fan_output) = fan_input.images
             /\ \A k \in DOMAIN fan_output : fan_output[k].page_idx = k - 1

\* the last batch completed first, the first batch last, each returned a
\* page, and the node has merged them
C10_Witness ==
    /\ fan_node = "outline_for_long_text"
    /\ fan_phase = "returned"
    /\ fan_completed = <<3, 2, 1>>
    /\ fan_output = << <<0, 1>>, <<1, 1>>, <<2, 1>> >>

(***************************************************************************)
(*                  robust_parse_json (dataflow_agent/utils.py)            *)
(*                                                                         *)
(* A text is a sequence of characters, each a one-character string; a      *)
(* control character and the backquote are written by their escape         *)
(* ("\\x00", "\\x60").  A parsed value                                     *)
(* is a record [t, v]: t names the Python type ("dict", "list", "str",    *)
(* "int", "float", "bool", "None"), v holds the value; a dict is a         *)
(* function from its keys, a list a sequence.                              *)
(***************************************************************************)

\* most pieces one input text is made of
MaxPieces == 3

Ascii == <<
    "\\x00", "\\x01", "\\x02", "\\x03", "\\x04", "\\x05", "\\x06", "\\x07",
    "\\x08", "\t", "\n", "\\x0b", "\\x0c", "\r", "\\x0e", "\\x0f",
    "\\x10", "\\x11", "\\x12", "\\x13", "\\x14", "\\x15", "\\x16", "\\x17",
    "\\x18", "\\x19", "\\x1a", "\\x1b", "\\x1c", "\\x1d", "\\x1e", "\\x1f",
    " ", "!", "\"", "#", "$", "%", "&", "'",
    "(", ")", "*", "+", ",", "-", ".", "/",
    "0", "1", "2", "3", "4", "5", "6", "7",
    "8", "9", ":", ";", "<", "=", ">", "?",
    "@", "A", "B", "C", "D", "E", "F", "G",
    "H", "I", "J", "K", "L", "M", "N", "O",
    "P", "Q", "R", "S", "T", "U", "V", "W",
    "X", "Y", "Z", "[", "\\", "]", "^", "_",
    "\\x60", "a", "b", "c", "d", "e", "f", "g",
    "h", "i", "j", "k", "l", "m", "n", "o",
    "p", "q", "r", "s", "t", "u", "v", "w",
    "x", "y", "z", "{", "|", "}", "~", "\\x7f" >>

Chr(code) == Ascii[code + 1]
CharRange(a, b) == {Chr(k) : k \in a .. b}

Backquote == Chr(96)
Digits == CharRange(48, 57)
UpperCase == CharRange(65, 90)
LowerCase == CharRange(97, 122)
\* \w of a str pattern, within the table
WordChars == Digits \cup UpperCase \cup LowerCase \cup {"_"}
\* str.isspace() and \s, within the table
PyWhitespace == {" ", "\t", "\n", "\r"} \cup CharRange(11, 12) \cup CharRange(28, 31)
\* json.decoder.WHITESPACE
JsonWhitespace == {" ", "\t", "\n", "\r"}
\* [\x00-\x08\x0b\x0c\x0e-\x1f\x7f]
RemovedControls ==
    CharRange(0, 8) \cup CharRange(11, 12) \cup CharRange(14, 31) \cup {Chr(127)}
\* characters a strict JSON string may not hold unescaped
StringControls == CharRange(0, 31)
\* str.splitlines() boundaries, within the table
LineBoundaries == {"\n", "\r"} \cup CharRange(11, 12) \cup CharRange(28, 30)
HexDigits == Digits \cup CharRange(65, 70) \cup CharRange(97, 102)

Ord(c) == CHOOSE k \in 0 .. 127 : Chr(k) = c
\* str.lower() of one character
Lower(c) == IF c \in UpperCase THEN Chr(Ord(c) + 32) ELSE c

RECURSIVE SkipWhile(_, _, _)
\* first position from i on whose character is outside cls
SkipWhile(s, i, cls) ==
    IF i <= Len(s) /\ s[i] \in cls THEN SkipWhile(s, i + 1, cls) ELSE i

RECURSIVE SkipUntil(_, _, _)
\* first position from i on whose character is in cls
SkipUntil(s, i, cls) ==
    IF i <= Len(s) /\ s[i] \notin cls THEN SkipUntil(s, i + 1, cls) ELSE i

RECURSIVE SkipBack(_, _, _)
\* last position up to i whose character is outside cls
SkipBack(s, i, cls) ==
    IF i >= 1 /\ s[i] \in cls THEN SkipBack(s, i - 1, cls) ELSE i

\* s[i-1:]  (i is a position counted from 1)
From(s, i) == SubSeq(s, i, Len(s))
\* str.lstrip()
LStrip(s) == From(s, SkipWhile(s, 1, PyWhitespace))
\* str.strip()
Strip(s) == SubSeq(s, SkipWhile(s, 1, PyWhitespace), SkipBack(s, Len(s), PyWhitespace))

\* pat occurs in s at position i
MatchAt(s, i, pat) ==
    /\ i >= 1
    /\ i + Len(pat) - 1 <= Len(s)
    /\ \A k \in 1 .. Len(pat) : s[i + k - 1] = pat[k]

RECURSIVE ReplaceFrom(_, _, _, _)
\* one step of str.replace at position i: hit tells whether pat occurs there
ReplaceAt(s, i, pat, rep, hit) ==
    (IF hit THEN rep ELSE <<s[i]>>)
        \o ReplaceFrom(s, IF hit THEN i + Len(pat) ELSE i + 1, pat, rep)

ReplaceFrom(s, i, pat, rep) ==
    IF i > Len(s) THEN <<>> ELSE ReplaceAt(s, i, pat, rep, MatchAt(s, i, pat))

\* str.replace(pat, rep)
StrReplace(s, pat, rep) == ReplaceFrom(s, 1, pat, rep)

\* group 1 of _outer_fence_pat, stripped: the text between the tag (and the
\* blanks behind it) of the opening fence and the closing fence
FenceBody(src, open, close) ==
    Strip(SubSeq(src,
                 SkipWhile(src, SkipWhile(src, open + 3, WordChars \cup {"-"}), PyWhitespace),
                 close - 1))

\* _outer_fence_pat.match(src) with the fences at open and close:
\* ^\s*```[\w-]*\s*([\s\S]*?)```\s*$ matches when the text, blanks aside,
\* opens and closes with a fence and the two do not overlap
FenceMatch(src, open, close) ==
    LET fence == <<Backquote, Backquote, Backquote>> IN
    IF MatchAt(src, open, fence) /\ close >= open + 3 /\ MatchAt(src, close, fence)
    THEN FenceBody(src, open, close)
    ELSE src

RemoveMarkdownFence(src) ==
    FenceMatch(src, SkipWhile(src, 1, PyWhitespace),
               SkipBack(src, Len(src), PyWhitespace) - 2)

RemoveOuterTripleQuotes(src) ==
    LET single == <<"'", "'", "'">>
        double == <<"\"", "\"", "\"">>
        n == Len(src)
    IN  IF \/ MatchAt(src, 1, single) /\ MatchAt(src, n - 2, single)
           \/ MatchAt(src, 1, double) /\ MatchAt(src, n - 2, double)
        THEN Strip(SubSeq(src, 4, n - 3))
        ELSE src

RemoveLeadingJsonWord(src) ==
    IF Len(src) >= 4 /\ [k \in 1 .. 4 |-> Lower(src[k])] = <<"j", "s", "o", "n">>
    THEN LStrip(From(src, 5))
    ELSE src

\* position of the first "*/" from j on, or 0
BlockCommentClose(s, j) ==
    IF \E h \in j .. Len(s) : MatchAt(s, h, <<"*", "/">>)
    THEN CHOOSE h \in j .. Len(s) :
             /\ MatchAt(s, h, <<"*", "/">>)
             /\ \A g \in j .. h - 1 : ~MatchAt(s, g, <<"*", "/">>)
    ELSE 0

\* end of the match of /\*[\s\S]*?\*/ at i (position behind it), or 0
BlockCommentEnd(s, i, close) ==
    IF MatchAt(s, i, <<"/", "*">>) /\ close # 0 THEN close + 2 ELSE 0

\* end of the match of (?<![:\"\'])//.* at i, or 0
LineCommentEnd(s, i) ==
    IF /\ MatchAt(s, i, <<"/", "/">>)
       /\ (i = 1 \/ s[i - 1] \notin {":", "\"", "'"})
    THEN SkipUntil(s, i + 2, {"\n"})
    ELSE 0

\* end of the match of ,\s*([}\]]) at i, with j the position behind the
\* comma's blanks, or 0
TrailingCommaEnd(s, i, j) ==
    IF s[i] = "," /\ j <= Len(s) /\ s[j] \in {"}", "]"} THEN j + 1 ELSE 0

RECURSIVE RemoveBlockComments(_, _)
RemoveBlockCommentsAt(s, i, end) ==
    (IF end = 0 THEN <<s[i]>> ELSE <<>>)
        \o RemoveBlockComments(s, IF end = 0 THEN i + 1 ELSE end)

\* re.sub(r'/\*[\s\S]*?\*/', '', src)
RemoveBlockComments(s, i) ==
    IF i > Len(s) THEN <<>>
    ELSE RemoveBlockCommentsAt(s, i, BlockCommentEnd(s, i, BlockCommentClose(s, i + 2)))

RECURSIVE RemoveLineComments(_, _)
RemoveLineCommentsAt(s, i, end) ==
    (IF end = 0 THEN <<s[i]>> ELSE <<>>)
        \o RemoveLineComments(s, IF end = 0 THEN i + 1 ELSE end)

\* re.sub(r'(?<![:\"\'])//.*', '', src)
RemoveLineComments(s, i) ==
    IF i > Len(s) THEN <<>> ELSE RemoveLineCommentsAt(s, i, LineCommentEnd(s, i))

RECURSIVE RemoveTrailingCommas(_, _)
RemoveTrailingCommasAt(s, i, end) ==
    (IF end = 0 THEN <<s[i]>> ELSE <<s[end - 1]>>)
        \o RemoveTrailingCommas(s, IF end = 0 THEN i + 1 ELSE end)

\* re.sub(r',\s*([}\]])', r'\1', src)
RemoveTrailingCommas(s, i) ==
    IF i > Len(s) THEN <<>>
    ELSE RemoveTrailingCommasAt(s, i,
                                TrailingCommaEnd(s, i, SkipWhile(s, i + 1, PyWhitespace)))

StripJsonComments(src) ==
    Strip(RemoveTrailingCommas(RemoveLineComments(RemoveBlockComments(src, 1), 1), 1))

\* re.sub(r'[\x00-\x08\x0b\x0c\x0e-\x1f\x7f]', '', s)
RemoveControlCharacters(s) == SelectSeq(s, LAMBDA c : c \notin RemovedControls)

\* the escape sequences protected by a marker, in the order of the replace
\* calls; a marker ('\x00NAME\x00') is one element of the text
ProtectedEscapes ==
    << <<"\\", "\\x00DOUBLE_BACKSLASH\\x00">>, <<"n", "\\x00NEWLINE\\x00">>,
       <<"r", "\\x00RETURN\\x00">>,            <<"t", "\\x00TAB\\x00">>,
       <<"\"", "\\x00QUOTE\\x00">>,            <<"/", "\\x00SLASH\\x00">>,
       <<"b", "\\x00BACKSPACE\\x00">>,         <<"f", "\\x00FORMFEED\\x00">> >>

RECURSIVE Protect(_, _)
Protect(s, k) ==
    IF k > Len(ProtectedEscapes) THEN s
    ELSE Protect(StrReplace(s, <<"\\", ProtectedEscapes[k][1]>>, <<ProtectedEscapes[k][2]>>),
                 k + 1)

RECURSIVE Restore(_, _)
Restore(s, k) ==
    IF k > Len(ProtectedEscapes) THEN s
    ELSE Restore(StrReplace(s, <<ProtectedEscapes[k][2]>>, <<"\\", ProtectedEscapes[k][1]>>),
                 k + 1)

\* mutant: no backslash is repaired
EscapeNoBackslash(s) == s

\* lines 84-104: protect the known escapes, double every other backslash,
\* restore the protected escapes
EscapeBareBackslashes(s) ==
    Restore(StrReplace(Protect(s, 1), <<"\\">>, <<"\\", "\\">>), 1)

(***************************************************************************)
(*                 json.JSONDecoder (strict, Python standard library)      *)
(***************************************************************************)

\* the nesting depth behind which the decoder's recursion guard raises
\* RecursionError: sys.getrecursionlimit() less the depth of the caller's
\* stack in CPython, scaled down
RecursionLimit == 3

\* a decoder result: failure (JSONDecodeError, or RecursionError from the
\* recursion guard of the scanner), or a value and the position behind it
Fail == [ok |-> FALSE, err |-> "JSONDecodeError"]
RecursionFail == [ok |-> FALSE, err |-> "RecursionError"]
Ok(val, end) == [ok |-> TRUE, val |-> val, end |-> end]

PyNone == [t |-> "None", v |-> <<>>]
PyBool(b) == [t |-> "bool", v |-> b]
PyInt(n) == [t |-> "int", v |-> n]
PyFloat(lexeme) == [t |-> "float", v |-> lexeme]
PyStr(chars) == [t |-> "str", v |-> chars]
PyList(items) == [t |-> "list", v |-> items]
PyDict(f) == [t |-> "dict", v |-> f]
EmptyDict == [k \in {} |-> PyNone]

\* dict.update / dict(pairs): a later key overwrites an earlier one
DictUpdate(d, o) ==
    [k \in DOMAIN d \cup DOMAIN o |-> IF k \in DOMAIN o THEN o[k] ELSE d[k]]

DigitValue(c) == Ord(c) - 48
HexValue(c) == IF c \in Digits THEN Ord(c) - 48 ELSE Ord(Lower(c)) - 87

RECURSIVE IntValue(_, _, _)
IntValue(s, a, b) ==
    IF a > b THEN 0 ELSE IntValue(s, a, b - 1) * 10 + DigitValue(s[b])

\* the character of a \uXXXX escape: the table's for a code below 128,
\* else written by its escape
Unicode(h) ==
    LET code == HexValue(h[1]) * 4096 + HexValue(h[2]) * 256 + HexValue(h[3]) * 16
                + HexValue(h[4])
    IN  IF code < 128 THEN Chr(code)
        ELSE "\\u" \o Lower(h[1]) \o Lower(h[2]) \o Lower(h[3]) \o Lower(h[4])

\* json.decoder.BACKSLASH
Backslash(esc) ==
    CASE esc = "b" -> Chr(8)
      [] esc = "f" -> Chr(12)
      [] esc = "n" -> "\n"
      [] esc = "r" -> "\r"
      [] esc = "t" -> "\t"
      [] OTHER -> esc

\* the character the escape sequence at i stands for
Escape(s, i) ==
    IF i + 1 > Len(s) THEN Fail
    ELSE IF s[i + 1] = "u"
    THEN IF i + 5 <= Len(s) /\ \A k \in 2 .. 5 : s[i + k] \in HexDigits
         THEN Ok(Unicode(SubSeq(s, i + 2, i + 5)), i + 6)
         ELSE Fail
    ELSE IF s[i + 1] \in {"\"", "\\", "/", "b", "f", "n", "r", "t"}
    THEN Ok(Backslash(s[i + 1]), i + 2)
    ELSE Fail

\* the character of the string at i: itself, the one its escape stands
\* for, or a failure for a control character
StringChar(s, i) ==
    IF s[i] \in StringControls THEN Fail
    ELSE IF s[i] = "\\" THEN Escape(s, i)
    ELSE Ok(s[i], i + 1)

RECURSIVE ScanString(_, _, _)
ScanStringAfter(s, c, acc) ==
    IF c.ok THEN ScanString(s, c.end, Append(acc, c.val)) ELSE Fail

\* scanstring(s, end, strict=True), i behind the opening quote
ScanString(s, i, acc) ==
    IF i > Len(s) THEN Fail
    ELSE IF s[i] = "\"" THEN Ok(acc, i + 1)
    ELSE ScanStringAfter(s, StringChar(s, i), acc)

\* (\.\d+)? at i: the position behind it
Fraction(s, i) ==
    IF i + 1 <= Len(s) /\ s[i] = "." /\ s[i + 1] \in Digits
    THEN SkipWhile(s, i + 1, Digits) ELSE i

\* ([eE][-+]?\d+)? at i, its digits expected at d: the position behind it
ExponentAt(s, i, d) ==
    IF i <= Len(s) /\ s[i] \in {"e", "E"} /\ d <= Len(s) /\ s[d] \in Digits
    THEN SkipWhile(s, d, Digits) ELSE i

Exponent(s, i) ==
    ExponentAt(s, i, IF i + 1 <= Len(s) /\ s[i + 1] \in {"+", "-"} THEN i + 2 ELSE i + 1)

\* int(integer) when there is no fraction and no exponent, else a float
NumberValue(s, i, first, intEnd, end) ==
    IF end = intEnd
    THEN Ok(PyInt((IF first = i THEN 1 ELSE -1) * IntValue(s, first, intEnd - 1)), intEnd)
    ELSE Ok(PyFloat(SubSeq(s, i, end - 1)), end)

NumberFrom(s, i, first, intEnd) ==
    NumberValue(s, i, first, intEnd, Exponent(s, Fraction(s, intEnd)))

\* (-?(?:0|[1-9]\d*)), its digits starting at first
IntegerFrom(s, i, first) ==
    IF first <= Len(s) /\ s[first] \in Digits
    THEN NumberFrom(s, i, first,
                    IF s[first] = "0" THEN first + 1 ELSE SkipWhile(s, first, Digits))
    ELSE Fail

\* NUMBER_RE.match: (-?(?:0|[1-9]\d*))(\.\d+)?([eE][-+]?\d+)?
ScanNumber(s, i) == IntegerFrom(s, i, IF s[i] = "-" THEN i + 1 ELSE i)

\* the constants read behind the numbers
ScanConstant(s, i) ==
    IF MatchAt(s, i, <<"N", "a", "N">>) THEN Ok(PyFloat(SubSeq(s, i, i + 2)), i + 3)
    ELSE IF MatchAt(s, i, <<"I", "n", "f", "i", "n", "i", "t", "y">>)
    THEN Ok(PyFloat(SubSeq(s, i, i + 7)), i + 8)
    ELSE IF MatchAt(s, i, <<"-", "I", "n", "f", "i", "n", "i", "t", "y">>)
    THEN Ok(PyFloat(SubSeq(s, i, i + 8)), i + 9)
    ELSE Fail

OrElse(r, other) == IF r.ok THEN r ELSE other

\* a string value from the characters scanstring returned
StringValue(str) == IF str.ok THEN Ok(PyStr(str.val), str.end) ELSE Fail

RECURSIVE ScanOnce(_, _, _)
RECURSIVE ObjectPairs(_, _, _, _)
RECURSIVE ArrayItems(_, _, _, _)

\* JSONObject behind a pair, next at the first non-blank behind the value
ObjectNext(s, next, quote, pairs, depth) ==
    IF next > Len(s) THEN Fail
    ELSE IF s[next] = "}" THEN Ok(PyDict(pairs), next + 1)
    ELSE IF s[next] # "," THEN Fail
    ELSE IF quote > Len(s) \/ s[quote] # "\"" THEN Fail
    ELSE ObjectPairs(s, quote + 1, pairs, depth)

\* a failure inside the value, RecursionError included, is the object's
ObjectValue(s, key, value, pairs, depth) ==
    IF ~value.ok THEN value
    ELSE ObjectNext(s, SkipWhile(s, value.end, JsonWhitespace),
                    SkipWhile(s, SkipWhile(s, value.end, JsonWhitespace) + 1, JsonWhitespace),
                    DictUpdate(pairs, [k \in {key.val} |-> value.val]), depth)

ObjectColon(s, key, colon, pairs, depth) ==
    IF colon > Len(s) \/ s[colon] # ":" THEN Fail
    ELSE ObjectValue(s, key, ScanOnce(s, SkipWhile(s, colon + 1, JsonWhitespace), depth),
                     pairs, depth)

ObjectKey(s, key, pairs, depth) ==
    IF ~key.ok THEN Fail
    ELSE ObjectColon(s, key, SkipWhile(s, key.end, JsonWhitespace), pairs, depth)

\* the loop of JSONObject, i behind the opening quote of a key
ObjectPairs(s, i, pairs, depth) == ObjectKey(s, ScanString(s, i, <<>>), pairs, depth)

ObjectFirst(s, j, depth) ==
    IF j > Len(s) THEN Fail
    ELSE IF s[j] = "}" THEN Ok(PyDict(EmptyDict), j + 1)
    ELSE IF s[j] # "\"" THEN Fail
    ELSE ObjectPairs(s, j + 1, EmptyDict, depth)

\* JSONObject, i behind '{'
JSONObject(s, i, depth) == ObjectFirst(s, SkipWhile(s, i, JsonWhitespace), depth)

\* JSONArray behind an item, next at the first non-blank behind it
ArrayNext(s, next, items, depth) ==
    IF next > Len(s) THEN Fail
    ELSE IF s[next] = "]" THEN Ok(PyList(items), next + 1)
    ELSE IF s[next] # "," THEN Fail
    ELSE ArrayItems(s, SkipWhile(s, next + 1, JsonWhitespace), items, depth)

\* a failure inside the item, RecursionError included, is the array's
ArrayValue(s, value, items, depth) ==
    IF ~value.ok THEN value
    ELSE ArrayNext(s, SkipWhile(s, value.end, JsonWhitespace), Append(items, value.val),
                   depth)

\* the loop of JSONArray, i at the next item
ArrayItems(s, i, items, depth) == ArrayValue(s, ScanOnce(s, i, depth), items, depth)

ArrayFirst(s, j, depth) ==
    IF j <= Len(s) /\ s[j] = "]" THEN Ok(PyList(<<>>), j + 1)
    ELSE ArrayItems(s, j, <<>>, depth)

\* JSONArray, i behind '['
JSONArray(s, i, depth) == ArrayFirst(s, SkipWhile(s, i, JsonWhitespace), depth)

\* the object or array opened at i - 1, depth containers around it: the
\* scanner's recursion guard raises behind RecursionLimit containers
Nested(s, i, depth, object) ==
    IF depth >= RecursionLimit THEN RecursionFail
    ELSE IF object THEN JSONObject(s, i, depth + 1)
    ELSE JSONArray(s, i, depth + 1)

\* json.scanner.py_make_scanner._scan_once
ScanOnce(s, i, depth) ==
    IF i > Len(s) THEN Fail
    ELSE IF s[i] = "\"" THEN StringValue(ScanString(s, i + 1, <<>>))
    ELSE IF s[i] \in {"{", "["} THEN Nested(s, i + 1, depth, s[i] = "{")
    ELSE IF MatchAt(s, i, <<"n", "u", "l", "l">>) THEN Ok(PyNone, i + 4)
    ELSE IF MatchAt(s, i, <<"t", "r", "u", "e">>) THEN Ok(PyBool(TRUE), i + 4)
    ELSE IF MatchAt(s, i, <<"f", "a", "l", "s", "e">>) THEN Ok(PyBool(FALSE), i + 5)
    ELSE OrElse(ScanNumber(s, i), ScanConstant(s, i))

\* JSONDecoder.raw_decode(s, idx): no blanks are skipped
RawDecode(s, i) == ScanOnce(s, i, 0)

\* the whole text was the value r, blanks aside
WholeText(s, r) ==
    IF ~r.ok THEN r
    ELSE IF SkipWhile(s, r.end, JsonWhitespace) > Len(s) THEN r
    ELSE Fail

\* json.loads(s): blanks around the one value, nothing else behind it
JsonLoads(s) == WholeText(s, RawDecode(s, SkipWhile(s, 1, JsonWhitespace)))

(***************************************************************************)
(*                    the fallbacks of robust_parse_json                   *)
(***************************************************************************)

RECURSIVE SplitLines(_, _)
SplitLinesAt(s, e, ln) ==
    (IF ln = <<>> THEN <<>> ELSE <<ln>>) \o SplitLines(s, e + 1)

SplitLinesTo(s, i, e) == SplitLinesAt(s, e, Strip(SubSeq(s, i, e - 1)))

\* [ln.strip() for ln in src.splitlines() if ln.strip()]
SplitLines(s, i) ==
    IF i > Len(s) THEN <<>> ELSE SplitLinesTo(s, i, SkipUntil(s, i, LineBoundaries))

\* the loop of _parse_json_lines over the lines as json.loads reads them
AllLines(parsed) ==
    IF Len(parsed) <= 1 THEN Fail
    ELSE IF \E k \in 1 .. Len(parsed) : ~parsed[k].ok
    THEN parsed[CHOOSE k \in 1 .. Len(parsed) :
                    ~parsed[k].ok /\ \A j \in 1 .. k - 1 : parsed[j].ok]
    ELSE [ok |-> TRUE, val |-> [k \in 1 .. Len(parsed) |-> parsed[k].val]]

LoadLines(lines) == AllLines([k \in 1 .. Len(lines) |-> JsonLoads(lines[k])])

\* _parse_json_lines: None (Fail) unless there are two lines or more and
\* every line is one JSON value
ParseJsonLines(src) == LoadLines(SplitLines(src, 1))

\* mutant: every decoded fragment is kept
FragmentAcceptedAlways(src, end) == TRUE

\* the strictness check of _extract_json_objects: the text behind the
\* fragment, blanks dropped, is empty or starts with one of ',]}>\n\r'
FragmentAccepted(src, end) ==
    LET tail == LStrip(From(src, end)) IN
    tail = <<>> \/ tail[1] \in {",", "]", "}", ">", "\n", "\r"}

RECURSIVE ExtractFrom(_, _)
\* one turn of the loop with a '{' or '[' at position at: keep tells whether
\* the fragment r decoded there is appended
\* an exception that no handler of robust_parse_json catches
Uncaught == [t |-> "raise", v |-> "RecursionError"]

ExtractKeep(src, at, r, keep) ==
    (IF keep THEN <<r.val>> ELSE <<>>) \o ExtractFrom(src, IF keep THEN r.end ELSE at + 1)

\* raw_decode is guarded by "except JSONDecodeError" alone: a
\* RecursionError ends the loop and the call
ExtractDecoded(src, at, r) ==
    IF ~r.ok /\ r.err = "RecursionError" THEN <<Uncaught>>
    ELSE ExtractKeep(src, at, r, r.ok /\ FragmentAccepted(src, r.end))

ExtractAt(src, at) ==
    IF at > Len(src) THEN <<>> ELSE ExtractDecoded(src, at, RawDecode(src, at))

\* the loop of _extract_json_objects, idx counted from 1
ExtractFrom(src, idx) == ExtractAt(src, SkipUntil(src, idx, {"{", "["}))

ExtractJsonObjects(src) == ExtractFrom(src, 1)

RECURSIVE MergeAllEarlierWins(_, _)
\* mutant: a key keeps the value of the first fragment that holds it
MergeAllEarlierWins(objs, merged) ==
    IF objs = <<>> THEN merged
    ELSE MergeAllEarlierWins(Tail(objs), DictUpdate(Head(objs).v, merged))

RECURSIVE MergeAll(_, _)
\* merged.update(o) for o in objs
MergeAll(objs, merged) ==
    IF objs = <<>> THEN merged ELSE MergeAll(Tail(objs), DictUpdate(merged, Head(objs).v))

\* _maybe_merge
MaybeMerge(objs, merge_dicts) ==
    IF Len(objs) = 1 THEN objs[1]
    ELSE IF merge_dicts /\ \A k \in 1 .. Len(objs) : objs[k].t = "dict"
    THEN PyDict(MergeAll(objs, EmptyDict))
    ELSE PyList(objs)

\* raise ValueError("Unable to locate any valid JSON fragment.")
NoJsonFragment == [t |-> "raise", v |-> "ValueError"]

\* s.replace("{{", "{").replace("}}", "}") when strip_double_braces is set
StripDoubleBraces(s, strip_double_braces) ==
    IF strip_double_braces
    THEN StrReplace(StrReplace(s, <<"{", "{">>, <<"{">>), <<"}", "}">>, <<"}">>)
    ELSE s

\* lines 63-104: the text handed to the three parsing steps
Clean(text, strip_double_braces) ==
    EscapeBareBackslashes(RemoveControlCharacters(StripJsonComments(
        StripDoubleBraces(
            RemoveLeadingJsonWord(RemoveOuterTripleQuotes(RemoveMarkdownFence(Strip(text)))),
            strip_double_braces))))

\* lines 110-128 on the results of the three steps: the value returned or
\* the exception raised (value), with the step that produced it and the
\* fragments it found (objs)
Steps(whole, lines, objs, merge_dicts) ==
    IF whole.ok THEN [value |-> whole.val, step |-> "loads", objs |-> <<>>]
    ELSE IF whole.err = "RecursionError"
    THEN [value |-> Uncaught, step |-> "loads", objs |-> <<>>]
    ELSE IF lines.ok
    THEN [value |-> MaybeMerge(lines.val, merge_dicts), step |-> "jsonl", objs |-> lines.val]
    ELSE IF lines.err = "RecursionError"
    THEN [value |-> Uncaught, step |-> "jsonl", objs |-> <<>>]
    ELSE IF objs = <<>>
    THEN [value |-> NoJsonFragment, step |-> "extract", objs |-> <<>>]
    ELSE IF objs[Len(objs)] = Uncaught
    THEN [value |-> Uncaught, step |-> "extract", objs |-> SubSeq(objs, 1, Len(objs) - 1)]
    ELSE [value |-> MaybeMerge(objs, merge_dicts), step |-> "extract", objs |-> objs]

ParseCleaned(s, merge_dicts) ==
    Steps(JsonLoads(s), ParseJsonLines(s), ExtractJsonObjects(s), merge_dicts)

\* robust_parse_json
RobustParseJson(text, merge_dicts, strip_double_braces) ==
    ParseCleaned(Clean(text, strip_double_braces), merge_dicts)

(***************************************************************************)
(*        json.dumps(value, separators=(",", ":")): minified JSON          *)
(***************************************************************************)

RECURSIVE Concat(_)
Concat(pieces) == IF pieces = <<>> THEN <<>> ELSE Head(pieces) \o Concat(Tail(pieces))

RECURSIVE IntDigits(_)
\* the decimal digits of n >= 0
IntDigits(n) == (IF n < 10 THEN <<>> ELSE IntDigits(n \div 10)) \o <<Chr(48 + (n % 10))>>

DumpInt(n) == IF n < 0 THEN <<"-">> \o IntDigits(-n) ELSE IntDigits(n)

HexDigit(n) == IF n < 10 THEN Chr(48 + n) ELSE Chr(87 + n)

\* json.encoder ESCAPE_ASCII and ESCAPE_DCT on one character
DumpChar(ch) ==
    IF ch = "\"" THEN <<"\\", "\"">>
    ELSE IF ch = "\\" THEN <<"\\", "\\">>
    ELSE IF ch = "\n" THEN <<"\\", "n">>
    ELSE IF ch = "\r" THEN <<"\\", "r">>
    ELSE IF ch = "\t" THEN <<"\\", "t">>
    ELSE IF ch = Chr(8) THEN <<"\\", "b">>
    ELSE IF ch = Chr(12) THEN <<"\\", "f">>
    ELSE IF ch \in CharRange(32, 126) THEN <<ch>>
    ELSE <<"\\", "u", "0", "0", HexDigit(Ord(ch) \div 16), HexDigit(Ord(ch) % 16)>>

\* json.encoder.py_encode_basestring_ascii
DumpString(chars) ==
    <<"\"">> \o Concat([k \in 1 .. Len(chars) |-> DumpChar(chars[k])]) \o <<"\"">>

RECURSIVE Join(_)
\* ",".join(texts)
Join(texts) ==
    IF texts = <<>> THEN <<>>
    ELSE IF Len(texts) = 1 THEN texts[1]
    ELSE texts[1] \o <<",">> \o Join(Tail(texts))

RECURSIVE KeyOrder(_)
\* the keys of a dict in the order they are written out
KeyOrder(keys) ==
    IF keys = {} THEN <<>>
    ELSE <<CHOOSE k \in keys : TRUE>> \o KeyOrder(keys \ {CHOOSE k \in keys : TRUE})

\* the members of a list or a dict, as written out
Members(value, keys) ==
    IF value.t = "list" THEN value.v ELSE [k \in 1 .. Len(keys) |-> value.v[keys[k]]]

\* a list or a dict around its members' texts
DumpContainer(value, keys, texts) ==
    IF value.t = "list" THEN <<"[">> \o Join(texts) \o <<"]">>
    ELSE <<"{">>
         \o Join([k \in 1 .. Len(keys) |-> DumpString(keys[k]) \o <<":">> \o texts[k]])
         \o <<"}">>

RECURSIVE JsonDumps(_)
DumpMembers(value, keys, members) ==
    DumpContainer(value, keys, [k \in 1 .. Len(members) |-> JsonDumps(members[k])])

DumpKeyed(value, keys) == DumpMembers(value, keys, Members(value, keys))

\* json.dumps(value, separators=(",", ":")); a float is written as it was read
JsonDumps(value) ==
    CASE value.t = "None" -> <<"n", "u", "l", "l">>
      [] value.t = "bool" ->
             IF value.v THEN <<"t", "r", "u", "e">> ELSE <<"f", "a", "l", "s", "e">>
      [] value.t = "int" -> DumpInt(value.v)
      [] value.t = "float" -> value.v
      [] value.t = "str" -> DumpString(value.v)
      [] value.t = "list" -> DumpKeyed(value, <<>>)
      [] value.t = "dict" -> DumpKeyed(value, KeyOrder(DOMAIN value.v))

(***************************************************************************)
(*                      Calls of robust_parse_json                         *)
(***************************************************************************)

ObjA == <<"{", "\"", "a", "\"", ":", "1", "}">>
ObjB == <<"{", "\"", "b", "\"", ":", "2", "}">>
ObjNested == <<"{", "\"", "a", "\"", ":", "{", "\"", "c", "\"", ":", "1", "}", "}">>
Garbage == <<" ", "g", "a", "r", "b", "a", "g", "e", " ">>
Angle == <<" ", ">", " ">>
Comma == <<",">>
Newline == <<"\n">>
FenceOpen == <<"\\x60", "\\x60", "\\x60", "j", "s", "o", "n", "\n">>
FenceClose == <<"\n", "\\x60", "\\x60", "\\x60">>

\* JSON objects a text is made of
ObjectPieces == {ObjA, ObjB, ObjNested}
\* what stands between and around them
OtherPieces == {Garbage, Angle, Comma, Newline, FenceOpen, FenceClose}
Pieces == ObjectPieces \cup OtherPieces

\* the texts of up to n pieces out of a set
TextsOf(pieces, n) == UNION {[1 .. k -> pieces] : k \in 1 .. n}

PiecesUpTo(n) == TextsOf(Pieces, n)

\* a caller holds a text made of the pieces and the two keyword arguments
InitParseOver(pieces) ==
    /\ IdleBuild /\ IdleInvoke /\ IdleReact /\ IdleParallel /\ IdleFanOut /\ IdleSimple /\ IdlePdf2Ppt /\ IdlePreTools /\ IdleImageApi /\ IdleCodeExecutor /\ IdleVlm
    /\ parse_pieces \in TextsOf(pieces, MaxPieces)
    /\ parse_merge_dicts \in BOOLEAN
    /\ parse_strip_double_braces \in BOOLEAN
    /\ parse_step = "none"
    /\ parse_value = [t |-> "none", v |-> <<>>]
    /\ parse_objs = <<>>
    /\ parse_again = [t |-> "none", v |-> <<>>]

InitParse == InitParseOver(Pieces)

\* the call ends with r
Returns(r) ==
    /\ parse_step' = r.step
    /\ parse_value' = r.value
    /\ parse_objs' = r.objs

\* robust_parse_json(text, merge_dicts=..., strip_double_braces=...)
RobustParse ==
    /\ parse_step = "none"
    /\ Returns(RobustParseJson(Concat(parse_pieces), parse_merge_dicts,
                               parse_strip_double_braces))
    /\ UNCHANGED <<notJ, parse_pieces, parse_merge_dicts, parse_strip_double_braces,
                   parse_again>>

\* the caller serializes the value returned, minified, and hands the text
\* to robust_parse_json with the same keyword arguments
ParseOwnOutput ==
    /\ parse_step # "none"
    /\ parse_value.t # "raise"
    /\ parse_again.t = "none"
    /\ parse_again' = RobustParseJson(JsonDumps(parse_value), parse_merge_dicts,
                                       parse_strip_double_braces).value
    /\ UNCHANGED <<notJ, parse_pieces, parse_merge_dicts, parse_strip_double_braces,
                   parse_step, parse_value, parse_objs>>

NextParse == RobustParse \/ ParseOwnOutput

SpecParse == InitParse /\ [][NextParse]_vars

(***************************************************************************)
(*                       Claims on robust_parse_json                       *)
(***************************************************************************)

\* the text is object, token, object
TwoObjectsAroundToken ==
    /\ Len(parse_pieces) = 3
    /\ parse_pieces[1] \in ObjectPieces
    /\ parse_pieces[2] \in {Garbage, Angle}
    /\ parse_pieces[3] \in ObjectPieces

\* the two objects of such a text, as json.loads reads them alone
BothObjects == <<JsonLoads(parse_pieces[1]).val, JsonLoads(parse_pieces[3]).val>>

AgentClasses == {"TableTextRenderer", "DeepResearchAgent", "ImageTextBBoxAgent"}

\* what the parser handed over: a dict, a non-empty str or an empty str
ResultShapes == {"dict", "str", "empty_str"}

\* mutant: the override of TableTextRenderer forgets super()
UpdateStateResultWithoutSuper(agent, shape) ==
    [written |-> {}, super_calls |-> IF agent = "TableTextRenderer" THEN 0 ELSE 1]

\* update_state_result of the agent class: the state fields its body
\* writes and the number of times it calls super().update_state_result
UpdateStateResult(agent, shape) ==
    CASE agent = "TableTextRenderer" ->
             [written |-> IF shape = "dict" THEN {"temp_data"} ELSE {}, super_calls |-> 1]
      [] agent = "DeepResearchAgent" ->
             [written |-> IF shape = "empty_str" THEN {} ELSE {"text_content"},
              super_calls |-> 1]
      [] agent = "ImageTextBBoxAgent" ->
             [written |-> {"bbox_result"}, super_calls |-> 1]

InitSimple ==
    /\ IdleBuild /\ IdleInvoke /\ IdleReact /\ IdleParallel /\ IdleFanOut /\ IdleParse /\ IdlePdf2Ppt /\ IdlePreTools /\ IdleImageApi /\ IdleCodeExecutor /\ IdleVlm
    /\ sim_agent \in AgentClasses
    /\ sim_outcome = "idle" /\ sim_calls = 0
    /\ sim_updates = 0 /\ sim_base_updates = 0 /\ sim_written = {}

\* agent.execute(state) begins
SimpleExecute ==
    /\ sim_agent \in AgentClasses
    /\ sim_outcome = "idle"
    /\ sim_outcome' = "running"
    /\ UNCHANGED <<notS, sim_agent, sim_calls, sim_updates, sim_base_updates, sim_written>>

\* the one invocation fails in the Tool/Model Caller (ToolCallError) or in
\* the parser (ParseError): a terminal error, nothing is merged
SimpleFails(error) ==
    /\ sim_outcome = "running"
    /\ sim_calls' = sim_calls + 1
    /\ sim_outcome' = error
    /\ UNCHANGED <<notS, sim_agent, sim_updates, sim_base_updates, sim_written>>

SimpleToolError == SimpleFails("ToolCallError")

SimpleParseError == SimpleFails("ParseError")

\* the merge of a parsed result: one call of the agent's hook
Merged(u) ==
    /\ sim_updates' = sim_updates + 1
    /\ sim_base_updates' = sim_base_updates + u.super_calls
    /\ sim_written' = sim_written \cup u.written

\* invoke, parse, merge into the state through update_state_result
SimpleSucceeds(shape) ==
    /\ sim_outcome = "running"
    /\ sim_calls' = sim_calls + 1
    /\ sim_outcome' = "success"
    /\ Merged(UpdateStateResult(sim_agent, shape))
    /\ UNCHANGED <<notS, sim_agent>>

NextSimple ==
    \/ SimpleExecute
    \/ SimpleToolError
    \/ SimpleParseError
    \/ \E shape \in ResultShapes : SimpleSucceeds(shape)

SpecSimple == InitSimple /\ [][NextSimple]_vars

\* one Execute call, in Simple or in React mode
InitExecute == InitSimple \/ InitReact

NextExecute == NextSimple \/ NextReact

SpecExecute == InitExecute /\ [][NextExecute]_vars

(***************************************************************************)
(*                          Claims on Execute                              *)
(***************************************************************************)

\* C11: within one Execute call update_state_result is called exactly once
\* for the successful attempt and never for another: in Simple and in React
\* mode the hook has run once when the call succeeded and not at all
\* otherwise, and each run of an agent's hook reaches
\* BaseAgent.update_state_result exactly once.
C11_UpdateOncePerSuccess ==
    /\ sim_updates = (IF sim_outcome = "success" THEN 1 ELSE 0)
    /\ sim_base_updates = sim_updates
    /\ react_updates = (IF react_outcome = "success" THEN 1 ELSE 0)

\* a TableTextRenderer call succeeded with a dict and wrote temp_data
C11_Witness ==
    /\ sim_agent = "TableTextRenderer"
    /\ sim_outcome = "success"
    /\ sim_calls = 1 /\ sim_updates = 1 /\ sim_base_updates = 1
    /\ sim_written = {"temp_data"}

\* a React call succeeded on its third attempt and merged once
C11_WitnessReact ==
    /\ react_outcome = "success"
    /\ react_attempt = 3
    /\ react_updates = 1

\* C23: a parser failure ends a Simple call as a terminal error after its
\* one Tool/Model Caller invocation, with nothing merged and nothing done
\* afterwards; in React mode the attempt that failed in the parser counts as
\* one attempt, and the loop goes on with the diagnostic as feedback while
\* attempts remain and ends in the terminal error once they are used up.
C23_ParseFailureByMode ==
    [][/\ sim_outcome = "ParseError" =>
              /\ sim_calls = 1 /\ sim_updates = 0
              /\ UNCHANGED svars
       /\ (react_attempt' # react_attempt /\ react_last'.kind = "parse") =>
              /\ react_attempt' = react_attempt + 1
              /\ react_calls' = react_calls + 1
              /\ react_updates' = react_updates
              /\ IF react_attempt' < react_config.max_retries + 1
                 THEN react_outcome' = "running" /\ react_feedback' = "ParseError"
                 ELSE react_outcome' = "ValidationExhausted" /\ react_error' = "ParseError"
      ]_vars

\* a React call whose first attempt failed in the parser went on and
\* succeeded on the second attempt
C23_Witness ==
    /\ react_outcome = "success"
    /\ react_feedback = "ParseError"
    /\ react_attempt = 2 /\ react_calls = 2
    /\ react_updates = 1

\* a Simple call ended with ParseError after its one invocation
C23_WitnessSimple ==
    /\ sim_outcome = "ParseError"
    /\ sim_calls = 1
    /\ sim_updates = 0

(***************************************************************************)
(*              robust_parse_json on deeply nested texts                   *)
(***************************************************************************)

OpenArray == <<"[">>
OpenArrays == <<"[", "[">>
CloseArray == <<"]">>
OpenObject == <<"{", "\"", "a", "\"", ":">>
CloseObject == <<"}">>
One == <<"1">>

\* what nested texts are made of
NestingPieces == {OpenArray, OpenArrays, CloseArray, OpenObject, CloseObject, One, Garbage, Newline}

InitParseNested == InitParseOver(NestingPieces)

SpecParseNested == InitParseNested /\ [][NextParse]_vars

\* C12 as stated: for every text the call returns a value or fails with the
\* one classified parser error, raised when extraction found no fragment;
\* no other exception leaves the call.
C12_AsStated ==
    (parse_step # "none" /\ parse_value.t = "raise") =>
        /\ parse_value = NoJsonFragment
        /\ parse_step = "extract"
        /\ parse_objs = <<>>

\* '[[[[' was parsed and the decoder's RecursionError left the call from
\* json.loads of Step-1
C12_Witness ==
    /\ parse_pieces = <<OpenArrays, OpenArrays>>
    /\ parse_step = "loads"
    /\ parse_value = Uncaught

\* what does hold: an exception that leaves the call is the ValueError of
\* an extraction without fragments or the decoder's RecursionError, and
\* texts nested no deeper than RecursionLimit never raise the latter
C12_ClassifiedWithinRecursionLimit ==
    (parse_step # "none" /\ parse_value.t = "raise") =>
        \/ parse_value = NoJsonFragment /\ parse_step = "extract" /\ parse_objs = <<>>
        \/ /\ parse_value = Uncaught
           /\ Len(SelectSeq(Concat(parse_pieces), LAMBDA ch : ch \in {"[", "{"}))
                  > RecursionLimit

(***************************************************************************)
(*        robust_parse_json on texts with slashes and commas in strings    *)
(***************************************************************************)

KeyOpen == <<"{", "\"", "a", "\"", ":", "\"">>
StrClose == <<"\"", "}">>
Slashes == <<"/", "/">>
WordSlashes == <<"b", "/", "/", "c">>
EscapedSlashes == <<"b", "\\", "/", "\\", "/", "c">>
Url == <<"h", "t", "t", "p", ":", "/", "/", "x">>
CommaBrace == <<",", "}">>

\* an object with one string value, what the string holds, and what may
\* stand behind the object
CommentPieces ==
    {KeyOpen, StrClose, Slashes, WordSlashes, EscapedSlashes, Url, CommaBrace, Newline}

InitParseComments == InitParseOver(CommentPieces)

SpecParseComments == InitParseComments /\ [][NextParse]_vars

\* the object whose key "a" holds the string chars
StringObject(chars) == PyDict([k \in {<<"a">>} |-> PyStr(chars)])

\* C13 as stated: the call on the minified JSON text of a value it returned,
\* with the same keyword arguments, returns an equal value.
C13_AsStated ==
    parse_again.t # "none" => parse_again = parse_value

\* '{"a":"b\/\/c"}' gave {"a": "b//c"}; its minified text '{"a":"b//c"}'
\* lost everything from the slashes on and the second call raised
C13_Witness ==
    /\ parse_pieces = <<KeyOpen, EscapedSlashes, StrClose>>
    /\ ~parse_merge_dicts /\ ~parse_strip_double_braces
    /\ parse_value = StringObject(WordSlashes)
    /\ parse_again = NoJsonFragment

(***************************************************************************)
(*                 Claims on several fragments in one text                 *)
(***************************************************************************)

IntObject(key, n) == PyDict([k \in {<<key>>} |-> PyInt(n)])

\* the last fragment that holds the key
LastWith(objs, key) ==
    CHOOSE k \in 1 .. Len(objs) :
        /\ key \in DOMAIN objs[k].v
        /\ \A j \in k + 1 .. Len(objs) : key \notin DOMAIN objs[j].v

\* C14: when more than one fragment was found, the call returns, with
\* merge_dicts set and every fragment an object, the object that holds
\* every key of every fragment with the value of the last fragment that
\* has the key, and otherwise the list of the fragments in encounter order;
\* '{"a":1}\n{"b":2}' gives {"a":1,"b":2} with merge_dicts and
\* [{"a":1},{"b":2}] without.
C14_MergeOrList ==
    /\ (parse_step \in {"jsonl", "extract"} /\ Len(parse_objs) > 1 /\ parse_value # Uncaught) =>
           IF parse_merge_dicts /\ \A k \in 1 .. Len(parse_objs) : parse_objs[k].t = "dict"
           THEN /\ parse_value.t = "dict"
                /\ DOMAIN parse_value.v =
                       UNION {DOMAIN parse_objs[k].v : k \in 1 .. Len(parse_objs)}
                /\ \A key \in DOMAIN parse_value.v :
                       parse_value.v[key] = parse_objs[LastWith(parse_objs, key)].v[key]
           ELSE parse_value = PyList(parse_objs)
    /\ (parse_step # "none" /\ parse_pieces = <<ObjA, Newline, ObjB>>) =>
           /\ parse_objs = <<IntObject("a", 1), IntObject("b", 2)>>
           /\ parse_value =
                  IF parse_merge_dicts
                  THEN PyDict([k \in {<<"a">>, <<"b">>} |->
                                  IF k = <<"a">> THEN PyInt(1) ELSE PyInt(2)])
                  ELSE PyList(<<IntObject("a", 1), IntObject("b", 2)>>)

\* '{"a":1}\n{"a":{"c":1}}' was parsed with merge_dicts: two fragments
\* were found and the second line's "a" replaced the first line's
C14_Witness ==
    /\ parse_pieces = <<ObjA, Newline, ObjNested>>
    /\ parse_merge_dicts
    /\ parse_step = "jsonl"
    /\ parse_objs = <<IntObject("a", 1), PyDict([k \in {<<"a">>} |-> IntObject("c", 1)])>>
    /\ parse_value = PyDict([k \in {<<"a">>} |-> IntObject("c", 1)])

(***************************************************************************)
(*            robust_parse_json on texts with backslashes                  *)
(***************************************************************************)

KeyOpenWord == <<"{", "\"", "a", "\"", ":", "\"", "x", " ">>
Word == <<"b">>
\* LaTeX in a string: \a is no JSON escape and none of the protected ones
Alpha == <<"\\", "a", "l", "p", "h", "a">>
\* \u is not among the protected sequences either
UnicodeEscape == <<"\\", "u", "0", "0", "4", "1">>
\* \b is protected: JSON reads it as a backspace
Beta == <<"\\", "b", "e", "t", "a">>
DoubleBackslash == <<"\\", "\\">>

\* what stands in a string, with a bare backslash and without
BarePieces == {Alpha, UnicodeEscape}
ContentPieces == BarePieces \cup {Beta, DoubleBackslash, Word}
BackslashPieces == {KeyOpen, KeyOpenWord, StrClose} \cup ContentPieces

InitParseBackslash == InitParseOver(BackslashPieces)

SpecParseBackslash == InitParseBackslash /\ [][NextParse]_vars

\* the text is one object whose string value is made of content pieces
StringText ==
    /\ Len(parse_pieces) >= 3
    /\ parse_pieces[1] \in {KeyOpen, KeyOpenWord}
    /\ parse_pieces[Len(parse_pieces)] = StrClose
    /\ \A k \in 2 .. Len(parse_pieces) - 1 : parse_pieces[k] \in ContentPieces

\* the characters a piece of the text stands for in the string value: a
\* bare backslash and what follows it stand for themselves
Literal(piece) ==
    CASE piece = KeyOpen -> <<>>
      [] piece = KeyOpenWord -> <<"x", " ">>
      [] piece = StrClose -> <<>>
      [] piece = Beta -> <<Chr(8), "e", "t", "a">>
      [] piece = DoubleBackslash -> <<"\\">>
      [] OTHER -> piece

\* C15: a text whose JSON string holds a bare backslash that begins none of
\* the protected escape sequences (LaTeX \alpha) is parsed without an
\* exception, and the string value returned holds the backslash itself at
\* that position, followed by the characters that followed it.
C15_BareBackslashKept ==
    (parse_step # "none" /\ StringText
         /\ \E k \in 1 .. Len(parse_pieces) : parse_pieces[k] \in BarePieces) =>
        /\ parse_step = "loads"
        /\ parse_value =
               StringObject(Concat([k \in 1 .. Len(parse_pieces) |-> Literal(parse_pieces[k])]))

\* '{"a":"x \alpha"}' was parsed and gave {"a": "x \alpha"}, the backslash
\* third in the string
C15_Witness ==
    /\ parse_pieces = <<KeyOpenWord, Alpha, StrClose>>
    /\ parse_step = "loads"
    /\ parse_value = StringObject(<<"x", " ", "\\", "a", "l", "p", "h", "a">>)

(***************************************************************************)
(*                 Claims on comments and trailing commas                  *)
(***************************************************************************)

\* what stands in a string value without an escape
PlainPieces == {Slashes, WordSlashes, Url, CommaBrace}

\* the text is one object whose string value is made of plain pieces
QuotedText ==
    /\ Len(parse_pieces) >= 3
    /\ parse_pieces[1] = KeyOpen
    /\ parse_pieces[Len(parse_pieces)] = StrClose
    /\ \A k \in 2 .. Len(parse_pieces) - 1 : parse_pieces[k] \in PlainPieces

\* the string value as written in such a text
QuotedChars == Concat(SubSeq(parse_pieces, 2, Len(parse_pieces) - 1))

\* C20 as stated: comment and trailing-comma stripping leave the inside of
\* a quoted string alone: a text that is one object with one string value
\* holding '//' or ',}' passes _strip_json_comments unchanged and the call
\* returns the string as written.
C20_AsStated ==
    (parse_step # "none" /\ QuotedText) =>
        /\ StripJsonComments(Concat(parse_pieces)) = Concat(parse_pieces)
        /\ parse_value = StringObject(QuotedChars)

\* '{"a":",}"}' was parsed: the comma inside the string was taken for a
\* trailing comma and the call returned {"a": "}"}
C20_Witness ==
    /\ parse_pieces = <<KeyOpen, CommaBrace, StrClose>>
    /\ parse_step = "loads"
    /\ parse_value = StringObject(<<"}">>)

\* '{"a":"b//c"}' was parsed: everything from the slashes inside the string
\* on was taken for a line comment and the call raised
C20_WitnessLineComment ==
    /\ parse_pieces = <<KeyOpen, WordSlashes, StrClose>>
    /\ parse_value = NoJsonFragment

\* what does hold: the '//' behind ':' (a URL) or behind a quote is kept
C20_KeptBehindColonOrQuote ==
    (parse_step # "none" /\ QuotedText /\ Len(parse_pieces) = 3
         /\ parse_pieces[2] \in {Url, Slashes}) =>
        parse_value = StringObject(QuotedChars)

(***************************************************************************)
(*     A run of the pdf2ppt_optimized workflow (wf_pdf2ppt_optimized.py)   *)
(***************************************************************************)

\* pages of the largest input
MaxSlides == 2

Branches == {"mineru", "sam"}

PptFile == "pdf2ppt_optimized_output.pptx"

\* a state field that holds pages, or was never assigned
Unset == [set |-> FALSE, pages |-> <<>>]
Pages(p) == [set |-> TRUE, pages |-> p]

\* what the caller hands over: a PDF (pdf_file set or not, pages of the
\* file) or a FIGURE (the image exists or not), with or without an api_key
Requests ==
    {r \in [input_type : {"PDF", "FIGURE"}, pdf_file : BOOLEAN, pages : 0 .. MaxSlides,
            api_key : BOOLEAN] :
        IF r.input_type = "FIGURE" THEN ~r.pdf_file /\ r.pages <= 1
        ELSE r.pdf_file <=> r.pages >= 1}

\* branch_state = copy.copy(state): an object of the branch's own whose
\* attributes are assigned
BranchState(b) == <<"copy", b>>

InitPdf2Ppt ==
    /\ IdleBuild /\ IdleInvoke /\ IdleReact /\ IdleParallel /\ IdleFanOut /\ IdleParse /\ IdlePreTools /\ IdleImageApi /\ IdleCodeExecutor /\ IdleVlm
    /\ IdleSimple
    /\ ppt_node = "_start_"
    /\ ppt_request \in Requests
    /\ ppt_state \in [result_path : {FALSE}, use_ai_edit : BOOLEAN, slide_images : {0},
                      mineru_pages : {Unset}, sam_pages : {Unset}, ppt_path : {""}]
    /\ ppt_branch = [b \in Branches |-> "idle"]
    /\ ppt_branch_state = <<>> /\ ppt_writes = [b \in Branches |-> {}]
    /\ ppt_files = {} /\ ppt_failures = {} /\ ppt_error = "none"

\* _init_result_path
InitResultPath ==
    /\ ppt_node = "_start_"
    /\ ppt_state' = [ppt_state EXCEPT !.result_path = TRUE]
    /\ ppt_node' = "pdf_to_images"
    /\ UNCHANGED <<notD, ppt_request, ppt_branch, ppt_branch_state, ppt_writes, ppt_files,
                   ppt_failures, ppt_error>>

\* pdf_to_images_node returns
PdfToImages ==
    /\ ppt_node = "pdf_to_images"
    /\ ppt_state' =
           IF ppt_request.input_type = "FIGURE"
           THEN [ppt_state EXCEPT !.use_ai_edit = TRUE,
                                  !.slide_images = IF ppt_request.pages >= 1 THEN 1 ELSE @]
           ELSE IF ~ppt_request.pdf_file THEN ppt_state
           ELSE [ppt_state EXCEPT !.slide_images = ppt_request.pages]
    /\ ppt_node' = "parallel_processing"
    /\ UNCHANGED <<notD, ppt_request, ppt_branch, ppt_branch_state, ppt_writes, ppt_files,
                   ppt_failures, ppt_error>>

\* the node raises and Invoke ends in error
NodeRaised(error) ==
    /\ ppt_node' = "raised"
    /\ ppt_error' = error
    /\ UNCHANGED <<notD, ppt_request, ppt_state, ppt_branch, ppt_branch_state, ppt_writes,
                   ppt_files>>

\* ppt_tool.pdf_to_images raises: pdf_to_images_node has no handler
PdfToImagesRaises ==
    /\ ppt_node = "pdf_to_images"
    /\ ppt_request.input_type = "PDF" /\ ppt_request.pdf_file
    /\ ppt_failures' = ppt_failures \cup {"pdf_to_images"}
    /\ NodeRaised("pdf_to_images")

\* parallel_processing_node up to asyncio.gather: each branch takes its copy
ParallelEnter ==
    /\ ppt_node = "parallel_processing"
    /\ \A b \in Branches : ppt_branch[b] = "idle"
    /\ ppt_branch' = [b \in Branches |-> "running"]
    /\ ppt_branch_state' = [b \in Branches |-> ppt_state]
    /\ UNCHANGED <<notD, ppt_node, ppt_request, ppt_state, ppt_writes, ppt_files,
                   ppt_failures, ppt_error>>

\* the field of the state a branch is to fill
Field(b) == IF b = "mineru" THEN "mineru_pages" ELSE "sam_pages"

\* a branch returns its branch_state with one field assigned
BranchReturns(b, field, pages) ==
    /\ ppt_node = "parallel_processing"
    /\ ppt_branch[b] = "running"
    /\ ppt_branch' = [ppt_branch EXCEPT ![b] = "returned"]
    /\ ppt_branch_state' = [ppt_branch_state EXCEPT ![b][field] = Pages(pages)]
    /\ ppt_writes' = [ppt_writes EXCEPT ![b] = Writes(BranchState(b), {field})]
    /\ UNCHANGED <<notD, ppt_node, ppt_request, ppt_state, ppt_files, ppt_error>>

\* mineru_branch: slides_mineru_node gives every page an entry, with blocks
\* found or, where recursive_mineru_layout raised, with none
MineruBranchReturns(found) ==
    /\ BranchReturns("mineru", "mineru_pages", found)
    /\ ppt_failures' = ppt_failures \cup
           (IF \E k \in DOMAIN found : ~found[k] THEN {"recursive_mineru_layout"} ELSE {})

\* sam_branch: slides_sam_node, then slides_layout_bg_remove_node
SamBranchReturns ==
    /\ BranchReturns("sam", "sam_pages", [k \in 1 .. ppt_state.slide_images |-> TRUE])
    /\ UNCHANGED ppt_failures

\* sam_branch raises: the remote SAM call and its local fallback both failed
SamBranchRaises ==
    /\ ppt_node = "parallel_processing"
    /\ ppt_branch["sam"] = "running"
    /\ ppt_state.slide_images >= 1
    /\ ppt_branch' = [ppt_branch EXCEPT !["sam"] = "raised"]
    /\ ppt_failures' = ppt_failures \cup {"segment_layout_boxes"}
    /\ UNCHANGED <<notD, ppt_node, ppt_request, ppt_state, ppt_branch_state, ppt_writes,
                   ppt_files, ppt_error>>

\* the field of a branch that returned, None for one without the field
BranchField(b, field) ==
    IF ppt_branch_state[b][field].set THEN ppt_branch_state[b][field] ELSE Unset

\* mutant: the field of a branch that raised is reset to an empty list
ParallelMergeResetsFailed ==
    /\ ppt_node = "parallel_processing"
    /\ \A b \in Branches : ppt_branch[b] \in {"returned", "raised"}
    /\ ppt_state' =
           [ppt_state EXCEPT
               !.mineru_pages = IF ppt_branch["mineru"] = "returned"
                                THEN BranchField("mineru", "mineru_pages") ELSE Pages(<<>>),
               !.sam_pages = IF ppt_branch["sam"] = "returned"
                             THEN BranchField("sam", "sam_pages") ELSE Pages(<<>>)]
    /\ ppt_node' = "slides_ppt_generation"
    /\ UNCHANGED <<notD, ppt_request, ppt_branch, ppt_branch_state, ppt_writes, ppt_files,
                   ppt_failures, ppt_error>>

\* gather(..., return_exceptions=True) returns once both branches ended;
\* a branch that raised is logged and skipped, the other is merged
ParallelMerge ==
    /\ ppt_node = "parallel_processing"
    /\ \A b \in Branches : ppt_branch[b] \in {"returned", "raised"}
    /\ ppt_state' =
           [ppt_state EXCEPT
               !.mineru_pages = IF ppt_branch["mineru"] = "returned"
                                THEN BranchField("mineru", "mineru_pages") ELSE @,
               !.sam_pages = IF ppt_branch["sam"] = "returned"
                             THEN BranchField("sam", "sam_pages") ELSE @]
    /\ ppt_node' = "slides_ppt_generation"
    /\ UNCHANGED <<notD, ppt_request, ppt_branch, ppt_branch_state, ppt_writes, ppt_files,
                   ppt_failures, ppt_error>>

\* slides_ppt_generation_node returns: without MinerU pages it gives up,
\* else it cleans the backgrounds where use_ai_edit and an api_key ask for
\* it (an image call that failed three times is logged and ignored) and
\* saves the file
SlidesPptGeneration(ai_ok) ==
    /\ ppt_node = "slides_ppt_generation"
    /\ IF ppt_state.mineru_pages.pages = <<>>
       THEN UNCHANGED <<ppt_state, ppt_files, ppt_failures>>
       ELSE /\ ppt_state' = [ppt_state EXCEPT !.ppt_path = PptFile]
            /\ ppt_files' = ppt_files \cup {PptFile}
            /\ ppt_failures' = ppt_failures \cup
                   (IF ppt_state.use_ai_edit /\ ppt_request.api_key /\ ~ai_ok
                    THEN {"generate_or_edit_and_save_image_async"} ELSE {})
    /\ ppt_node' = "_end_"
    /\ UNCHANGED <<notD, ppt_request, ppt_branch, ppt_branch_state, ppt_writes, ppt_error>>

\* prs.save raises: slides_ppt_generation_node has no handler
PptSaveRaises ==
    /\ ppt_node = "slides_ppt_generation"
    /\ ppt_state.mineru_pages.pages # <<>>
    /\ UNCHANGED ppt_failures
    /\ NodeRaised("prs.save")

\* _end_, and Invoke returns the final state
EndNode ==
    /\ ppt_node = "_end_"
    /\ ppt_node' = "returned"
    /\ UNCHANGED <<notD, ppt_request, ppt_state, ppt_branch, ppt_branch_state, ppt_writes,
                   ppt_files, ppt_failures, ppt_error>>

NextPdf2Ppt ==
    \/ InitResultPath
    \/ PdfToImages
    \/ PdfToImagesRaises
    \/ ParallelEnter
    \/ /\ ppt_node = "parallel_processing"
       /\ \E found \in [1 .. ppt_state.slide_images -> BOOLEAN] : MineruBranchReturns(found)
    \/ SamBranchReturns
    \/ SamBranchRaises
    \/ ParallelMerge
    \/ \E ai_ok \in BOOLEAN : SlidesPptGeneration(ai_ok)
    \/ PptSaveRaises
    \/ EndNode

SpecPdf2Ppt == InitPdf2Ppt /\ [][NextPdf2Ppt]_vars

(***************************************************************************)
(*                    Claims on the pdf2ppt workflow                       *)
(***************************************************************************)

\* C28: while parallel_processing_node runs, the state it was given is not
\* written; the node ends by returning normally to the next node, also when
\* a branch raised; at that step the field of every branch that returned
\* takes the value of that branch's copy, and the field of a branch that
\* raised keeps the value it had when the node began.
C28_FailedBranchKeepsField ==
    [][ppt_node = "parallel_processing" =>
          IF ppt_node' = "parallel_processing"
          THEN ppt_state' = ppt_state
          ELSE /\ ppt_node' = "slides_ppt_generation"
               /\ ppt_error' = "none"
               /\ \A b \in Branches :
                      ppt_state'[Field(b)] =
                          IF ppt_branch[b] = "returned"
                          THEN ppt_branch_state[b][Field(b)]
                          ELSE ppt_state[Field(b)]
      ]_vars

\* sam_branch raised and mineru_branch returned one page: the node went on
\* to slides_ppt_generation with mineru_pages merged and sam_pages as before
C28_Witness ==
    /\ ppt_node = "slides_ppt_generation"
    /\ ppt_branch["sam"] = "raised"
    /\ ppt_branch["mineru"] = "returned"
    /\ ppt_state.mineru_pages = Pages(<<TRUE>>)
    /\ ppt_state.sam_pages = Unset

C16_PptPathWhenPages ==
    ppt_node = "returned" =>
        IF ppt_state.mineru_pages.pages # <<>>
        THEN ppt_state.ppt_path = PptFile /\ PptFile \in ppt_files
        ELSE ppt_state.ppt_path = ""

\* C18 as stated: a Tool/Model Caller failure inside a node is retried or
\* leaves Invoke as an error; no run in which a tool call failed for good
\* returns normally.
C18_AsStated ==
    ppt_node = "returned" => ppt_failures = {}

\* SAM failed in sam_branch, remote and local; parallel_processing_node
\* logged the exception and went on, and the run returned normally with a
\* PPT file and sam_pages never set
C18_Witness ==
    /\ ppt_node = "returned"
    /\ ppt_branch["sam"] = "raised"
    /\ ppt_failures = {"segment_layout_boxes"}
    /\ ppt_error = "none"
    /\ ppt_state.sam_pages = Unset
    /\ ppt_state.ppt_path = PptFile

\* what does hold: the one tool failure that leaves Invoke as an error is
\* that of ppt_tool.pdf_to_images
C18_OnlyPdfToImagesPropagates ==
    /\ ppt_node = "raised" => ppt_error \in {"pdf_to_images", "prs.save"}
    /\ "pdf_to_images" \in ppt_failures <=> ppt_error = "pdf_to_images"

(***************************************************************************)
(*        Claims on the writes of concurrent sub-tasks and branches        *)
(***************************************************************************)

\* the fan-out of outline_for_long_text and vlm_recognition_node, or a run
\* of pdf2ppt_optimized with the fan-out of parallel_processing_node
InitFanOutOrPdf2Ppt == InitFanOut \/ InitPdf2Ppt

NextFanOutOrPdf2Ppt == NextFanOut \/ NextPdf2Ppt

SpecFanOutOrPdf2Ppt == InitFanOutOrPdf2Ppt /\ [][NextFanOutOrPdf2Ppt]_vars

\* no two of the writers wrote the same field of the same object, and none
\* wrote the shared state
DisjointWrites(writes) ==
    /\ \A j, k \in DOMAIN writes : j # k => writes[j] \cap writes[k] = {}
    /\ \A k \in DOMAIN writes : \A w \in writes[k] : w[1] # SharedState

C17_WitnessBranches ==
    /\ ppt_node = "parallel_processing"
    /\ ppt_branch = [b \in Branches |-> "returned"]
    /\ ppt_writes["mineru"] = {<<BranchState("mineru"), "mineru_pages">>}
    /\ ppt_writes["sam"] = {<<BranchState("sam"), "sam_pages">>}
    /\ ppt_state.mineru_pages = Unset /\ ppt_state.sam_pages = Unset

(***************************************************************************)
(*              Claims on escapes of texts that are valid JSON             *)
(***************************************************************************)

\* what json.loads gives for the text as the caller wrote it
StandardParse == JsonLoads(Concat(parse_pieces))

\* C21 as stated: for a text that is valid JSON already, one object with
\* one string value, the call returns what json.loads of the text returns:
\* every escape sequence of the string decodes to the same characters.
C21_AsStated ==
    (parse_step # "none" /\ StringText /\ StandardParse.ok) =>
        parse_value = StandardParse.val

\* '{"a":"\u0041"}' was parsed: json.loads reads the string "A", the call
\* doubled the backslash of \u and returned the six characters \u0041
C21_Witness ==
    /\ parse_pieces = <<KeyOpen, UnicodeEscape, StrClose>>
    /\ parse_step = "loads"
    /\ StandardParse.ok
    /\ StandardParse.val = StringObject(<<"A">>)
    /\ parse_value = StringObject(UnicodeEscape)

\* what does hold: a valid text whose escapes are all among the protected
\* ones is returned as json.loads reads it
C21_ProtectedEscapesKept ==
    (parse_step # "none" /\ StringText /\ StandardParse.ok
         /\ \A k \in 1 .. Len(parse_pieces) : parse_pieces[k] # UnicodeEscape) =>
        parse_value = StandardParse.val

\* '{"a":"x \beta"}' was parsed and gave "x ", a backspace and "eta"
C21_WitnessProtected ==
    /\ parse_pieces = <<KeyOpenWord, Beta, StrClose>>
    /\ parse_step = "loads"
    /\ parse_value = StandardParse.val
    /\ parse_value = StringObject(<<"x", " ", Chr(8), "e", "t", "a">>)

(***************************************************************************)
(*     execute_pre_tools of TableTextRenderer and TableSplitter            *)
(***************************************************************************)

PreToolAgents == {"TableTextRenderer", "TableSplitter"}

TableOutputPng ==
    PyStr(<<"t", "a", "b", "l", "e", "_", "o", "u", "t", "p", "u", "t", ".", "p", "n", "g">>)

\* get_default_pre_tool_results of the two classes
GetDefaultPreToolResults(agent) ==
    IF agent = "TableTextRenderer"
    THEN [k \in {"table_text", "table_title", "output_path"} |->
              IF k = "output_path" THEN TableOutputPng ELSE PyStr(<<>>)]
    ELSE [k \in {"input_text"} |-> PyStr(<<>>)]

\* what a registered pre-tool function computes from the state
ToolValue == PyStr(<<"t", "o", "o", "l">>)

\* values a caller puts into state.pre_tool_results
SuppliedValues == {PyStr(<<>>), PyStr(<<"c">>), PyInt(0), PyInt(1), PyNone}

\* Python's truth value of a value
Truthy(value) ==
    CASE value.t = "None" -> FALSE
      [] value.t = "bool" -> value.v
      [] value.t = "int"  -> value.v # 0
      [] value.t = "dict" -> DOMAIN value.v # {}
      [] OTHER            -> value.v # <<>>

\* BaseAgent.execute_pre_tools: the registered pre-tool functions' values,
\* and the agent's default for every name without one
BaseExecutePreTools(agent, registered) ==
    [k \in DOMAIN GetDefaultPreToolResults(agent) |->
         IF k \in registered THEN ToolValue ELSE GetDefaultPreToolResults(agent)[k]]

\* the names of inject_results whose value passes "if value:"
Injected(supplied) == {k \in DOMAIN supplied : Truthy(supplied[k])}

\* execute_pre_tools of the class: super's results, then every truthy
\* value of state.pre_tool_results over them
ExecutePreToolsOf(agent, registered, supplied) ==
    [k \in DOMAIN BaseExecutePreTools(agent, registered) \cup Injected(supplied) |->
         IF k \in Injected(supplied) THEN supplied[k]
         ELSE BaseExecutePreTools(agent, registered)[k]]

\* an agent of one of the classes, pre-tool functions registered for some
\* of its names, and a state whose pre_tool_results the caller has set
InitPreTools ==
    /\ IdleBuild /\ IdleInvoke /\ IdleReact /\ IdleParallel /\ IdleFanOut /\ IdleParse /\ IdleSimple /\ IdlePdf2Ppt /\ IdleImageApi /\ IdleCodeExecutor /\ IdleVlm
    /\ pt_agent \in PreToolAgents
    /\ pt_registered \in SUBSET DOMAIN GetDefaultPreToolResults(pt_agent)
    /\ \E names \in SUBSET DOMAIN GetDefaultPreToolResults(pt_agent) :
           pt_supplied \in [names -> SuppliedValues]
    /\ pt_results = <<>>
    /\ pt_done = FALSE

\* await agent.execute_pre_tools(state)
ExecutePreTools ==
    /\ pt_agent \in PreToolAgents
    /\ ~pt_done
    /\ pt_results' = ExecutePreToolsOf(pt_agent, pt_registered, pt_supplied)
    /\ pt_done' = TRUE
    /\ UNCHANGED <<notT, pt_agent, pt_registered, pt_supplied>>

NextPreTools == ExecutePreTools

SpecPreTools == InitPreTools /\ [][NextPreTools]_vars

\* C22 as stated: after the pre-tool results are computed, every name the
\* caller supplied a value for carries that value, whatever the value is.
C22_AsStated ==
    pt_done => \A k \in DOMAIN pt_supplied : pt_results[k] = pt_supplied[k]

\* the caller supplied output_path = "" to a TableTextRenderer and the
\* results carry the default "table_output.png"
C22_Witness ==
    /\ pt_done
    /\ pt_agent = "TableTextRenderer"
    /\ pt_registered = {}
    /\ "output_path" \in DOMAIN pt_supplied
    /\ pt_supplied["output_path"] = PyStr(<<>>)
    /\ pt_results["output_path"] = TableOutputPng

\* what does hold: a supplied value that is truthy replaces the default and
\* the registered function's value, a falsy one never does
C22_TruthySuppliedWins ==
    pt_done =>
        \A k \in DOMAIN pt_supplied :
            pt_results[k] =
                IF Truthy(pt_supplied[k]) THEN pt_supplied[k]
                ELSE BaseExecutePreTools(pt_agent, pt_registered)[k]

\* the caller supplied table_title = 1 and the results carry it in place of
\* the registered function's value
C22_WitnessTruthy ==
    /\ pt_done
    /\ "table_title" \in pt_registered
    /\ "table_title" \in DOMAIN pt_supplied
    /\ pt_supplied["table_title"] = PyInt(1)
    /\ pt_results["table_title"] = PyInt(1)

(***************************************************************************)
(*      _call_image_api_with_retry and the image calls of the nodes        *)
(***************************************************************************)

\* images of the largest input
MaxAiPages == 4

\* _call_image_api_with_retry(coro_factory, retries=3): no caller passes retries
ImageApiRetries == 3

\* wf_pdf2ppt_qwenvl.py: sem = asyncio.Semaphore(3)
QwenvlSemaphore == 3

ImageSites == {"paper2figure_image_only", "pdf2ppt_optimized", "pdf2ppt_qwenvl"}

\* figure_generator_node makes one call; the PPT nodes one per page
ImageCounts(site) ==
    IF site = "paper2figure_image_only" THEN {1} ELSE 1 .. MaxAiPages

Waiting == [phase |-> "pending", attempt |-> 0, failures |-> 0]

\* inside "async with sem": the call in flight or the sleep after a failure
Holding(tasks) == {k \in DOMAIN tasks : tasks[k].phase \in {"calling", "sleeping"}}

Calling(tasks) == {k \in DOMAIN tasks : tasks[k].phase = "calling"}

\* whether a coroutine may enter: only the qwenvl node takes a semaphore
MayEnter(site, tasks) ==
    site = "pdf2ppt_qwenvl" => Cardinality(Holding(tasks)) < QwenvlSemaphore

\* the except branch: image_only sleeps only when an attempt remains, the
\* two PPT workflows sleep after every failure
AfterFailure(site, attempt, retries) ==
    IF site = "paper2figure_image_only" /\ attempt >= retries THEN "false" ELSE "sleeping"

\* mutant: the loop grants one attempt more
AfterSleepOneMore(attempt, retries) ==
    IF attempt < retries + 1 THEN "calling" ELSE "false"

\* after the sleep: the next turn of the loop, or return False behind it
AfterSleep(attempt, retries) ==
    IF attempt < retries THEN "calling" ELSE "false"

InitImageApi ==
    /\ IdleBuild /\ IdleInvoke /\ IdleReact /\ IdleParallel /\ IdleFanOut /\ IdleParse /\ IdleSimple /\ IdlePdf2Ppt /\ IdlePreTools /\ IdleCodeExecutor /\ IdleVlm
    /\ img_site \in ImageSites
    /\ \E n \in ImageCounts(img_site) : img_task = [k \in 1 .. n |-> Waiting]
    /\ img_returned = FALSE

\* the coroutine enters (under the semaphore in qwenvl) and the first turn
\* of the loop awaits coro_factory()
ImageStart(k) ==
    /\ img_task[k].phase = "pending"
    /\ MayEnter(img_site, img_task)
    /\ img_task' = [img_task EXCEPT ![k] = [phase |-> "calling", attempt |-> 1, failures |-> 0]]
    /\ UNCHANGED <<notA, img_site, img_returned>>

\* coro_factory() returned: return True
ImageCallSucceeds(k) ==
    /\ img_task[k].phase = "calling"
    /\ img_task' = [img_task EXCEPT ![k].phase = "true"]
    /\ UNCHANGED <<notA, img_site, img_returned>>

\* coro_factory() raised an Exception: log, then sleep or leave the loop
ImageCallFails(k) ==
    /\ img_task[k].phase = "calling"
    /\ img_task' = [img_task EXCEPT
                       ![k].phase = AfterFailure(img_site, img_task[k].attempt, ImageApiRetries),
                       ![k].failures = @ + 1]
    /\ UNCHANGED <<notA, img_site, img_returned>>

\* asyncio.sleep returned
ImageWake(k) ==
    /\ img_task[k].phase = "sleeping"
    /\ img_task' = [img_task EXCEPT
                       ![k].phase = AfterSleep(img_task[k].attempt, ImageApiRetries),
                       ![k].attempt = IF AfterSleep(img_task[k].attempt, ImageApiRetries) = "calling"
                                      THEN @ + 1 ELSE @]
    /\ UNCHANGED <<notA, img_site, img_returned>>

\* every helper call has returned: asyncio.gather(*ai_coroutines,
\* return_exceptions=True) returns, "ok = await ..." in image_only
ImageGather ==
    /\ img_site \in ImageSites
    /\ ~img_returned
    /\ \A k \in DOMAIN img_task : img_task[k].phase \in {"true", "false"}
    /\ img_returned' = TRUE
    /\ UNCHANGED <<notA, img_site, img_task>>

NextImageApi ==
    \/ \E k \in DOMAIN img_task : ImageStart(k)
    \/ \E k \in DOMAIN img_task : ImageCallSucceeds(k)
    \/ \E k \in DOMAIN img_task : ImageCallFails(k)
    \/ \E k \in DOMAIN img_task : ImageWake(k)
    \/ ImageGather

SpecImageApi == InitImageApi /\ [][NextImageApi]_vars

\* C24 as stated: in the generation node of pdf2ppt_qwenvl at most one
\* image-edit API call is in flight at any time.
C24_AsStated ==
    img_site = "pdf2ppt_qwenvl" => Cardinality(Calling(img_task)) <= 1

\* three calls of the qwenvl node are in flight and the fourth image waits
\* for the semaphore
C24_Witness ==
    /\ img_site = "pdf2ppt_qwenvl"
    /\ Cardinality(Calling(img_task)) = 3
    /\ \E k \in DOMAIN img_task : img_task[k].phase = "pending"

\* what does hold: never more than Semaphore(3) coroutines of the qwenvl
\* node are inside "async with sem"
C24_AtMostSemaphore ==
    img_site = "pdf2ppt_qwenvl" => Cardinality(Holding(img_task)) <= QwenvlSemaphore

\* C27: the helper awaits the call at most retries (3) times; it returns
\* True at the first call that succeeds, every call before it having
\* failed; it returns False only after retries failed calls; and it ends in
\* one of the two, never in an exception.
C27_BoundedRetryNoRaise ==
    \A k \in DOMAIN img_task :
        /\ img_task[k].attempt <= ImageApiRetries
        /\ img_task[k].phase \in {"pending", "calling", "sleeping", "true", "false"}
        /\ img_task[k].phase = "true" => img_task[k].failures = img_task[k].attempt - 1
        /\ img_task[k].phase = "false" =>
               /\ img_task[k].attempt = ImageApiRetries
               /\ img_task[k].failures = ImageApiRetries
        /\ img_returned => img_task[k].phase \in {"true", "false"}

\* the one call of figure_generator_node failed three times and the helper
\* returned False to the node
C27_Witness ==
    /\ img_site = "paper2figure_image_only"
    /\ img_returned
    /\ img_task[1] = [phase |-> "false", attempt |-> 3, failures |-> 3]

\* a call of the optimized node succeeded on its second attempt
C27_WitnessSuccess ==
    /\ img_site = "pdf2ppt_optimized"
    /\ \E k \in DOMAIN img_task :
           img_task[k] = [phase |-> "true", attempt |-> 2, failures |-> 1]

(***************************************************************************)
(*          code_executor_node (wf_paper2expfigure.py)                     *)
(***************************************************************************)

\* extracted tables of the largest input
MaxTables == 3

\* charts_dir / f"{table_id}.png"
ChartPath(k) == [t |-> "Path", v |-> k]

\* the dict {table_id: value} a task returns for its table
Single(k, value) == [key |-> k, value |-> value]

\* how the task of a table ends: the agent or a file write raised, the
\* chart code ran and failed, or it ran and wrote the chart
TaskEnds == {"raised", "exec_failed", "ok"}

\* what task(ccg_state) returns: the except branch gives None for both,
\* the try branch gives the code and {table_id: chart_path} whether
\* result['success'] or not
TaskReturn(k, how) ==
    IF how = "raised"
    THEN <<Single(k, PyNone), Single(k, PyNone)>>
    ELSE <<Single(k, PyStr(<<"c", "o", "d", "e">>)), Single(k, ChartPath(k))>>

\* the comprehension behind the gather: dicts whose value is None are dropped
NotNone(result) == result.value # PyNone

\* reduce(lambda x, y: {**x, **y}, dicts, {})
MergeSingles(dicts) ==
    [k \in {dicts[i].key : i \in DOMAIN dicts} |->
         dicts[CHOOSE i \in DOMAIN dicts :
                   dicts[i].key = k /\ \A j \in DOMAIN dicts : dicts[j].key = k => j <= i].value]

\* the charts of the returned pairs, in task order
ChartsOf(returned, tasks) ==
    [i \in 1 .. Len(tasks) |-> returned[tasks[i]][2]]

\* the tables a task is made for, in table order
SuitableTables(suitable) ==
    SelectSeq([k \in DOMAIN suitable |-> k], LAMBDA k : suitable[k])

InitCodeExecutor ==
    /\ IdleBuild /\ IdleInvoke /\ IdleReact /\ IdleParallel /\ IdleFanOut /\ IdleParse /\ IdleSimple /\ IdlePdf2Ppt /\ IdlePreTools /\ IdleImageApi /\ IdleVlm
    /\ \E n \in 0 .. MaxTables : ce_suitable \in [1 .. n -> BOOLEAN]
    /\ ce_task = [k \in DOMAIN ce_suitable |-> "none"]
    /\ ce_returned = [k \in DOMAIN ce_suitable |-> <<>>]
    /\ ce_charts = <<>>
    /\ ce_done = FALSE

\* "if not tables": the node returns the state as it is
CodeExecutorSkips ==
    /\ ~ce_done /\ ce_suitable = <<>> /\ ce_task = <<>>
    /\ ce_done' = TRUE
    /\ UNCHANGED <<notC, ce_suitable, ce_task, ce_returned, ce_charts>>

\* tasks = [task(s) for s in states]: one task per suitable table
CodeExecutorEnter ==
    /\ ~ce_done /\ ce_suitable # <<>>
    /\ \A k \in DOMAIN ce_task : ce_task[k] = "none"
    /\ \E k \in DOMAIN ce_suitable : ce_suitable[k]
    /\ ce_task' = [k \in DOMAIN ce_suitable |-> IF ce_suitable[k] THEN "pending" ELSE "none"]
    /\ UNCHANGED <<notC, ce_suitable, ce_returned, ce_charts, ce_done>>

\* the task of table k runs to its return
TaskEnd(k, how) ==
    /\ ~ce_done
    /\ ce_task[k] = "pending"
    /\ ce_task' = [ce_task EXCEPT ![k] = how]
    /\ ce_returned' = [ce_returned EXCEPT ![k] = TaskReturn(k, how)]
    /\ UNCHANGED <<notC, ce_suitable, ce_charts, ce_done>>

\* asyncio.gather returned (at once when no table is suitable): filter,
\* merge, assign state.generated_charts, return
CodeExecutorMerge ==
    /\ ~ce_done /\ ce_suitable # <<>>
    /\ \/ \A k \in DOMAIN ce_suitable : ~ce_suitable[k]
       \/ \E k \in DOMAIN ce_task : ce_task[k] # "none"
    /\ \A k \in DOMAIN ce_task : ce_task[k] # "pending"
    /\ ce_charts' = MergeSingles(SelectSeq(ChartsOf(ce_returned, SuitableTables(ce_suitable)),
                                           NotNone))
    /\ ce_done' = TRUE
    /\ UNCHANGED <<notC, ce_suitable, ce_task, ce_returned>>

NextCodeExecutor ==
    \/ CodeExecutorSkips
    \/ CodeExecutorEnter
    \/ \E k \in DOMAIN ce_task, how \in TaskEnds : TaskEnd(k, how)
    \/ CodeExecutorMerge

SpecCodeExecutor == InitCodeExecutor /\ [][NextCodeExecutor]_vars

\* C25 as stated: once code_executor_node has returned, state.generated_charts
\* has an entry only for tables whose chart code was generated and executed
\* successfully.
C25_AsStated ==
    ce_done => \A k \in DOMAIN ce_charts : ce_task[k] = "ok"

\* the chart code of table 1 failed when run, and generated_charts maps
\* table 1 to its chart path all the same
C25_Witness ==
    /\ ce_done
    /\ Len(ce_task) >= 1
    /\ ce_task[1] = "exec_failed"
    /\ 1 \in DOMAIN ce_charts
    /\ ce_charts[1] = ChartPath(1)

\* what does hold: generated_charts has the chart path of exactly the
\* tables whose task reached its return behind execute_matplotlib_code; the
\* tasks that raised are filtered out
C25_RaisedTasksFiltered ==
    ce_done =>
        /\ DOMAIN ce_charts = {k \in DOMAIN ce_task : ce_task[k] \in {"ok", "exec_failed"}}
        /\ \A k \in DOMAIN ce_charts : ce_charts[k] = ChartPath(k)

\* the task of one table raised and that of another wrote its chart
C25_WitnessFiltered ==
    /\ ce_done
    /\ \E k \in DOMAIN ce_task : ce_task[k] = "raised"
    /\ \E k \in DOMAIN ce_task : ce_task[k] = "ok" /\ k \in DOMAIN ce_charts

(***************************************************************************)
(*      vlm_recognition_node and its retry loop (wf_pdf2ppt_qwenvl.py)     *)
(***************************************************************************)

\* slide images of the largest input
MaxVlmImages == 2

\* _process_single_image: max_retries = 3
VlmMaxRetries == 3

\* how one agent.execute ends: bbox_result is a list, bbox_result is
\* something else, or the call raises
AttemptOutcomes == {"list", "invalid", "raised"}

\* where the task stands after attempt number attempt (counted from 1)
\* ended: a list breaks the loop, a raise on the last turn is raised again
\* into the outer handler, everything else goes round
AfterAttempt(outcome, attempt, max_retries) ==
    IF outcome = "list" THEN "process"
    ELSE IF attempt < max_retries THEN "loop"
    ELSE IF outcome = "raised" THEN "except"
    ELSE "process"

\* mutant: the outer handler's entry carries no error
SingleImageEntryWithoutError(page_idx, task, processed) ==
    [page_idx |-> page_idx,
     vlm_data |-> IF task.phase = "process" /\ processed /\ task.last = "list"
                  THEN "items" ELSE "empty",
     error    |-> FALSE]

\* the dict _process_single_image returns: behind the loop the boxes of a
\* list (none for an invalid result) unless the image handling raises; from
\* the outer handler no boxes and the error
SingleImageEntry(page_idx, task, processed) ==
    IF task.phase = "process" /\ processed
    THEN [page_idx |-> page_idx,
          vlm_data |-> IF task.last = "list" THEN "items" ELSE "empty",
          error    |-> FALSE]
    ELSE [page_idx |-> page_idx, vlm_data |-> "empty", error |-> TRUE]

Fresh == [phase |-> "loop", attempts |-> 0, raised |-> 0, last |-> "none"]

InitVlm ==
    /\ IdleBuild /\ IdleInvoke /\ IdleReact /\ IdleParallel /\ IdleFanOut /\ IdleParse /\ IdleSimple /\ IdlePdf2Ppt /\ IdlePreTools /\ IdleImageApi /\ IdleCodeExecutor
    /\ vr_images \in 0 .. MaxVlmImages
    /\ vr_task = <<>> /\ vr_entry = <<>> /\ vr_pages = <<>>
    /\ vr_phase = "entered"

\* no slide_images: state.vlm_pages = [] and the node returns
VlmNoImages ==
    /\ vr_phase = "entered" /\ vr_images = 0
    /\ vr_pages' = <<>>
    /\ vr_phase' = "returned"
    /\ UNCHANGED <<notQ, vr_images, vr_task, vr_entry>>

\* tasks = [_process_single_image(i, p) for i, p in enumerate(image_paths)]
VlmTasks ==
    /\ vr_phase = "entered" /\ vr_images >= 1
    /\ vr_task' = [k \in 1 .. vr_images |-> Fresh]
    /\ vr_entry' = [k \in 1 .. vr_images |-> <<>>]
    /\ vr_phase' = "gathering"
    /\ UNCHANGED <<notQ, vr_images, vr_pages>>

\* one turn of the retry loop of image k
VlmAttempt(k, outcome) ==
    /\ vr_phase = "gathering"
    /\ vr_task[k].phase = "loop"
    /\ vr_task' = [vr_task EXCEPT
                      ![k] = [phase    |-> AfterAttempt(outcome, vr_task[k].attempts + 1,
                                                        VlmMaxRetries),
                              attempts |-> vr_task[k].attempts + 1,
                              raised   |-> vr_task[k].raised + (IF outcome = "raised" THEN 1 ELSE 0),
                              last     |-> outcome]]
    /\ UNCHANGED <<notQ, vr_images, vr_entry, vr_pages, vr_phase>>

\* _process_single_image returns, from behind the loop or from its handler
VlmSingleImageReturns(k, processed) ==
    /\ vr_phase = "gathering"
    /\ vr_task[k].phase \in {"process", "except"}
    /\ vr_entry' = [vr_entry EXCEPT ![k] = SingleImageEntry(k - 1, vr_task[k], processed)]
    /\ vr_task' = [vr_task EXCEPT ![k].phase = "done"]
    /\ UNCHANGED <<notQ, vr_images, vr_pages, vr_phase>>

\* results = await asyncio.gather(*tasks); state.vlm_pages = results
VlmGather ==
    /\ vr_phase = "gathering"
    /\ \A k \in DOMAIN vr_task : vr_task[k].phase = "done"
    /\ vr_pages' = Gather(vr_entry, <<>>)
    /\ vr_phase' = "returned"
    /\ UNCHANGED <<notQ, vr_images, vr_task, vr_entry>>

NextVlm ==
    \/ VlmNoImages
    \/ VlmTasks
    \/ \E k \in DOMAIN vr_task, outcome \in AttemptOutcomes : VlmAttempt(k, outcome)
    \/ \E k \in DOMAIN vr_task, processed \in BOOLEAN : VlmSingleImageReturns(k, processed)
    \/ VlmGather

SpecVlm == InitVlm /\ [][NextVlm]_vars

C29_WitnessInvalid ==
    /\ vr_phase = "returned"
    /\ vr_images >= 1
    /\ vr_task[1].attempts = 3 /\ vr_task[1].raised = 0 /\ vr_task[1].last = "invalid"
    /\ vr_pages[1] = [page_idx |-> 0, vlm_data |-> "empty", error |-> FALSE]

(***************************************************************************)
(*                 calculate_batches: coverage of the text                 *)
(***************************************************************************)

\* the batches follow each other from character 0 in index order: the
\* first starts at 0, each starts where the one before it ends, none ends
\* before it starts, and batch_idx counts the positions from 0
ConsecutiveFromZero(batches) ==
    /\ batches[1].start_char = 0
    /\ \A k \in DOMAIN batches :
           /\ batches[k].batch_idx = k - 1
           /\ batches[k].start_char <= batches[k].end_char
           /\ k > 1 => batches[k].start_char = batches[k - 1].end_char

\* C30: the batches outline_for_long_text got from calculate_batches are
\* consecutive, non-overlapping and in index order, and they cover exactly
\* the characters 0 .. total_chars - 1: the last batch ends at total_chars.
C30_AsStated ==
    fan_batches # <<>> =>
        /\ ConsecutiveFromZero(fan_batches)
        /\ fan_batches[Len(fan_batches)].end_char = fan_input.total_chars

\* a text of 3 characters cut for 2 batches: chars_per_batch is 1, the
\* batches are [0, 1) and [1, 2), and the last character is in no batch
C30_Witness ==
    /\ fan_node = "outline_for_long_text"
    /\ fan_input.total_chars = 3
    /\ Len(fan_batches) = 2
    /\ fan_batches[1].start_char = 0 /\ fan_batches[1].end_char = 1
    /\ fan_batches[2].start_char = 1 /\ fan_batches[2].end_char = 2
    /\ fan_batches[2].is_last

\* what the code keeps: the batches are consecutive from 0 in index order,
\* they stay inside the text, and the characters behind the last batch
\* are fewer than the batches
C30_ConsecutiveTailBelowBatches ==
    fan_batches # <<>> =>
        /\ ConsecutiveFromZero(fan_batches)
        /\ fan_batches[Len(fan_batches)].end_char <= fan_input.total_chars
        /\ fan_input.total_chars - fan_batches[Len(fan_batches)].end_char < Len(fan_batches)

\* a text whose length the number of batches divides is covered whole
C30_WitnessCovered ==
    /\ fan_node = "outline_for_long_text"
    /\ fan_input.total_chars = 4
    /\ Len(fan_batches) = 2
    /\ fan_batches[2].end_char = 4

====
